---------------------------- MODULE Spec2Model ----------------------------
(***************************************************************************)
(* State-machine model of the keenetic-TG-Bot operator console: the job    *)
(* runner (App.run_long_job), the instance lock, the monitor, the pending  *)
(* input store, the shell result cache and the callback dispatcher.        *)
(*                                                                         *)
(* Every subsystem has its own next-state relation and specification over  *)
(* the one set of variables; a subsystem's actions leave the variables of  *)
(* the other subsystems unchanged.                                         *)
(***************************************************************************)
EXTENDS Integers, Sequences, FiniteSets, TLC

(***************************************************************************)
(* Bounds of the model.                                                    *)
(***************************************************************************)
\* number of run_long_job invocations started concurrently
MaxJobs == 2
\* largest executor_workers value explored (App.__init__: max(1, ...))
MaxWorkers == 2
\* notifications fired one after another
MaxNotes == 2

Jobs == 1..MaxJobs
Idle == [kind |-> "idle", job |-> 0]
Task(k, j) == [kind |-> k, job |-> j]

VARIABLES
    \* ---- job runner (App.run_long_job, keenetic-tg-bot/modules/app.py)
    executor_workers, \* max_workers of self.executor
    workQueue,        \* FIFO work queue of the ThreadPoolExecutor
    thr,              \* what each executor thread is running
    hPc,              \* position of the handler inside run_long_job / _cb
    spPc,             \* position of spinner()
    wkPc,             \* position of runner()
    done,             \* the threading.Event of each invocation
    jobRet,           \* how job() ended: "none", "returned", "raised"
    screen,           \* outcome screen built by runner(): "ok" or "fail"
    edits,            \* edits landed on the message, runs of "spin" collapsed
    sent,             \* outcome screens sent as a new message (fallback)
    \* ---- instance lock (App._acquire_instance_lock, modules/app.py)
    lockDir,          \* the lock directory exists
    pidFile,          \* pid recorded in <lock_dir>/pid, 0: no readable pid
    alive,            \* the process is running
    lPc,              \* position of each process in its acquisition
    probePid,         \* pid a process read from the pid file
    \* ---- monitor (Monitor, keenetic-tg-bot/modules/monitor.py and the
    \*      earlier modules/monitor.py)
    mPc,              \* position of Monitor.run
    now,              \* time.time(), in monitor intervals
    cfg,              \* the notify settings of the configuration
    service_state,    \* _last_service_state / _service_state
    last_sent,        \* _last_sent / _notify_last: key -> time of last firing
    fires,            \* per key: what notify_admins was called for, so far
    scen,             \* how far the samples fed to Target follow Scenario
    mTick,            \* the checks the current loop iteration ran, and those that raised
    \* ---- pending input (PendingStore, modules/ui.py)
    pNow,             \* time.time()
    pending,          \* self._pending: (chat_id, user_id) -> Pending
    pSets,            \* number of set calls made, the id of the latest entry
    pPc,              \* position of each thread inside pop / peek
    pRead,            \* the pop / peek a thread is in, or finished last
    pWant,            \* per key: the entry set and not yet taken by a pop
    pLast,            \* per key: the id of the entry set last
    \* ---- shell result cache (Shell.run, keenetic-tg-bot/modules/utils/shell.py)
    shNow,            \* time.time(), in seconds
    shCache,          \* self._cache: key -> (now, res)
    shPc,             \* position of each thread inside Shell.run
    shCall,           \* the Shell.run call a thread is in, or finished last
    shCalls,          \* number of Shell.run calls started
    shExecs,          \* number of subprocess.run executions started
    shScen,           \* how far the calls follow the three-call scenario
    \* ---- callback dispatcher (App.register, keenetic-tg-bot/modules/app.py)
    admins,           \* cfg.admins
    pending_input,    \* self._pending_input: chat_id -> kind
    session,          \* self._session: chat_id -> the user whose render wrote it
    last_chat_id,     \* self.last_chat_id
    last_message_id,  \* self.last_message_id
    last_user_id,     \* self.last_user_id
    cbPc,             \* position of each telebot worker inside _cb
    cbCall,           \* the callback query a worker is handling
    cbScreen,         \* the screen a worker is about to show
    rendered,         \* users for whose callback comp.render was invoked
    outMsgs,          \* users for whose update a screen was edited in or sent
    toasted,          \* users answered with the err.no_access alert
    noopAcked,        \* a noop callback was answered with the empty acknowledgement
    cbRaised,         \* comp.render raised in the callback a worker handles
    lastShown,        \* the screen edit_or_send delivered last
    \* ---- delivery of one notification to the admins (_notify_admins)
    nGen,             \* which of the three delivery loops runs
    nIdx,             \* 0: no delivery under way; else index of the admin served
    nAttempt,         \* `attempt` of the inner loop for that admin
    nTries,           \* per admin: send_message calls of this notification
    nGot,             \* admins this notification was delivered to
    nFirstFailed,     \* admins whose first send_message of this notification raised
    nNotes,           \* notifications fired so far
    \* ---- log tail (Monitor._tail_new_errors, modules/monitor.py), one path
    fExists,          \* path.exists()
    fSize,            \* path.stat().st_size
    logPos,           \* self._last_log_pos: {} when the path has no entry, else {offset}
    fCut,             \* the file was cut or replaced since the offset was stored
    tail,             \* what the last _tail_new_errors call saw and did
    \* ---- lock file (App.acquire_lock, keenetic-tg-bot/modules/app.py)
    flPc,             \* position of each process in acquire_lock
    flOwner,          \* the process whose open file holds the flock, 0: none
    flText,           \* pid recorded in the lock file, 0: the file is empty
    \* ---- callback tokens (parse_cb, keenetic-tg-bot/modules/app.py)
    tokStage,         \* "triple": to be encoded; "raw": to be parsed; "done"
    tokSrc,           \* the (module, cmd, params) a token is built from
    tokIn,            \* callback_data, a sequence of characters
    tokOut,           \* what parse_cb returned
    \* ---- outcome of one command (Shell.run, keenetic-tg-bot/modules/utils/shell.py
    \*      and keenetic_tg_bot/shell.py)
    runPc,            \* "idle", "run": inside subprocess.run, "done"
    runGen,           \* whose Shell.run is called: "new" or "pkg"
    runLast,          \* how subprocess.run ended and what Shell.run did then
    runCalls,         \* calls made
    \* ---- start-up and poll loop (App.run, modules/app.py; App.start,
    \*      keenetic-tg-bot/modules/app.py)
    appGen,           \* whose loop runs: "old" (App.run) or "new" (App.start)
    appPc,            \* position of the main thread
    appLock,          \* what the lock acquisition returned: "none", "ok", "failed"
    monitorStarted,   \* self.monitor.start() was called
    polls,            \* calls of infinity_polling started
    backoff,          \* `backoff`
    err_streak,       \* `err_streak` (App.run only)
    last_notify,      \* `last_notify` (App.run only)
    appNow,           \* time.time(), in seconds
    sleeps,           \* delays slept since polling last returned normally
    pollFails,        \* polling exceptions so far
    alerts,           \* the polling alerts sent: time and err_streak of each
    \* ---- the simulation (main, tests/simulate.py)
    simCfg,           \* the AppConfig the App is built from
    simPc,            \* statements of main executed so far
    simMade,          \* the objects constructed so far
    simComponents,    \* keys of app.components
    simScreens,       \* the (name, text) pairs rendered so far
    simExc,           \* the exception that left main, "" when none
    \* ---- one edge-triggered check (Monitor._check_services and
    \*      Monitor._check_internet, modules/monitor.py; the service part of
    \*      Monitor.tick, keenetic-tg-bot/modules/monitor.py)
    eKind,            \* which check: "services", "internet", "tick"
    eCfg,             \* the switch of the down notification, the cooldown
    eNow,             \* time.time(), in monitor intervals
    eStored,          \* the stored sample: "unset" before the first one
    eLast,            \* _notify_last / _last_sent: key -> time
    eEval,            \* the last evaluation: its number, sample, notifications
    \* ---- inbound messages against the pending input (_any, modules/app.py;
    \*      _text, keenetic-tg-bot/modules/app.py)
    inGen,             \* whose handler runs: "any" or "text"
    inStore,           \* the pending entries: key -> entry
    inAsks,            \* entries set so far, the id of the latest
    inMsgs,            \* messages arrived so far
    inPc,             \* position of each telebot worker inside _any
    inMsg,             \* the message a worker is handling
    inSeen,            \* what peek returned to the worker
    inDone,            \* what was done with each message
    \* ---- address of a job's edits (_cb and run_long_job, keenetic-tg-bot/modules/app.py)
    jaLastChat,        \* self.last_chat_id
    jaLastMsg,         \* self.last_message_id
    jaPc,              \* position of each telebot worker in _cb
    jaCall,            \* user of the callback each worker handles
    jaJob,             \* the job each worker started: chat_id, msg_id, its tasks
    jaEdits,           \* edits made so far: whose callback, where to, what
    jaCalls            \* callbacks handled so far

jobVars == <<executor_workers, workQueue, thr, hPc, spPc, wkPc, done, jobRet,
             screen, edits, sent>>

lockVars == <<lockDir, pidFile, alive, lPc, probePid>>

monVars == <<mPc, now, cfg, service_state, last_sent, fires, scen, mTick>>

pendVars == <<pNow, pending, pSets, pPc, pRead, pWant, pLast>>

shellVars == <<shNow, shCache, shPc, shCall, shCalls, shExecs, shScen>>

cbVars == <<admins, pending_input, session, last_chat_id, last_message_id,
            last_user_id, cbPc, cbCall, cbScreen, rendered, outMsgs, toasted,
            noopAcked, cbRaised, lastShown>>

notifyVars == <<nGen, nIdx, nAttempt, nTries, nGot, nFirstFailed, nNotes>>

tailVars == <<fExists, fSize, logPos, fCut, tail>>

flockVars == <<flPc, flOwner, flText>>

tokVars == <<tokStage, tokSrc, tokIn, tokOut>>

runVars == <<runPc, runGen, runLast, runCalls>>

appVars == <<appGen, appPc, appLock, monitorStarted, polls, backoff, err_streak,
             last_notify, appNow, sleeps, pollFails, alerts>>

simVars == <<simCfg, simPc, simMade, simComponents, simScreens, simExc>>

edgeVars == <<eKind, eCfg, eNow, eStored, eLast, eEval>>

ext1Vars == <<runVars, appVars, simVars>>
msgVars == <<inGen, inStore, inAsks, inMsgs, inPc, inMsg, inSeen, inDone>>

addrVars == <<jaLastChat, jaLastMsg, jaPc, jaCall, jaJob, jaEdits, jaCalls>>
ext2Vars == <<edgeVars, msgVars, addrVars>>
extVars == <<ext1Vars, ext2Vars>>

vars == <<jobVars, lockVars, monVars, pendVars, shellVars, cbVars, notifyVars,
          tailVars, flockVars, tokVars, extVars>>

notJobVars ==
    <<lockVars, monVars, pendVars, shellVars, cbVars, notifyVars, tailVars, flockVars,
      tokVars, extVars>>
notLockVars ==
    <<jobVars, monVars, pendVars, shellVars, cbVars, notifyVars, tailVars, flockVars,
      tokVars, extVars>>
notMonVars ==
    <<jobVars, lockVars, pendVars, shellVars, cbVars, notifyVars, tailVars, flockVars,
      tokVars, extVars>>
notPendVars ==
    <<jobVars, lockVars, monVars, shellVars, cbVars, notifyVars, tailVars, flockVars,
      tokVars, extVars>>
notShellVars ==
    <<jobVars, lockVars, monVars, pendVars, cbVars, notifyVars, tailVars, flockVars,
      tokVars, extVars>>
notCbVars ==
    <<jobVars, lockVars, monVars, pendVars, shellVars, notifyVars, tailVars, flockVars,
      tokVars, extVars>>
notNotifyVars ==
    <<jobVars, lockVars, monVars, pendVars, shellVars, cbVars, tailVars, flockVars,
      tokVars, extVars>>
notTailVars ==
    <<jobVars, lockVars, monVars, pendVars, shellVars, cbVars, notifyVars, flockVars,
      tokVars, extVars>>
notFlockVars ==
    <<jobVars, lockVars, monVars, pendVars, shellVars, cbVars, notifyVars, tailVars,
      tokVars, extVars>>
notTokVars ==
    <<jobVars, lockVars, monVars, pendVars, shellVars, cbVars, notifyVars, tailVars,
      flockVars, extVars>>
coreVars ==
    <<jobVars, lockVars, monVars, pendVars, shellVars, cbVars, notifyVars, tailVars,
      flockVars, tokVars>>
notRunVars == <<coreVars, appVars, simVars, ext2Vars>>
notAppVars == <<coreVars, runVars, simVars, ext2Vars>>
notSimVars == <<coreVars, runVars, appVars, ext2Vars>>
notEdgeVars == <<coreVars, ext1Vars, msgVars, addrVars>>
notMsgVars == <<coreVars, ext1Vars, edgeVars, addrVars>>
notAddrVars == <<coreVars, ext1Vars, edgeVars, msgVars>>

(***************************************************************************)
(* Job runner.                                                             *)
(***************************************************************************)
Workers == 1..executor_workers

\* An edit that landed on the message.  Consecutive spinner frames are kept
\* as one entry: the spinner loops without bound and only the order of the
\* kinds of edit matters.
Land(seq, e) ==
    IF e = "spin" /\ Len(seq) > 0 /\ seq[Len(seq)] = "spin"
    THEN seq
    ELSE Append(seq, e)

IsOutcome(e) == e \in {"ok", "fail"}

Holds(t, k, j) == thr[t] = Task(k, j)
Running(k, j) == \E t \in Workers : Holds(t, k, j)

InitJob ==
    /\ executor_workers \in 1..MaxWorkers
    /\ workQueue = <<>>
    /\ thr = [t \in 1..MaxWorkers |-> Idle]
    /\ hPc = [j \in Jobs |-> "idle"]
    /\ spPc = [j \in Jobs |-> "none"]
    /\ wkPc = [j \in Jobs |-> "none"]
    /\ done = [j \in Jobs |-> FALSE]
    /\ jobRet = [j \in Jobs |-> "none"]
    /\ screen = [j \in Jobs |-> "none"]
    /\ edits = [j \in Jobs |-> <<>>]
    /\ sent = [j \in Jobs |-> 0]

\* run_long_job: self.executor.submit(spinner)
SubmitSpinner(j) ==
    /\ hPc[j] = "idle"
    /\ hPc' = [hPc EXCEPT ![j] = "submitRunner"]
    /\ workQueue' = Append(workQueue, Task("spinner", j))
    /\ spPc' = [spPc EXCEPT ![j] = "queued"]
    /\ UNCHANGED <<executor_workers, thr, wkPc, done, jobRet, screen, edits, sent>>
    /\ UNCHANGED notJobVars

\* run_long_job: self.executor.submit(runner); return Screen(running_text)
SubmitRunner(j) ==
    /\ hPc[j] = "submitRunner"
    /\ hPc' = [hPc EXCEPT ![j] = "returned"]
    /\ workQueue' = Append(workQueue, Task("runner", j))
    /\ wkPc' = [wkPc EXCEPT ![j] = "queued"]
    /\ UNCHANGED <<executor_workers, thr, spPc, done, jobRet, screen, edits, sent>>
    /\ UNCHANGED notJobVars

\* _cb: self.edit_or_send(chat, message, screen) with the interim screen
InterimEdit(j) ==
    /\ hPc[j] = "returned"
    /\ hPc' = [hPc EXCEPT ![j] = "shown"]
    /\ edits' = [edits EXCEPT ![j] = Land(@, "running")]
    /\ UNCHANGED <<executor_workers, workQueue, thr, spPc, wkPc, done, jobRet,
                   screen, sent>>
    /\ UNCHANGED notJobVars

\* ThreadPoolExecutor: an idle thread takes the oldest queued work item
ExecTake(t) ==
    /\ t \in Workers
    /\ thr[t] = Idle
    /\ workQueue # <<>>
    /\ LET w == Head(workQueue) IN
        /\ thr' = [thr EXCEPT ![t] = w]
        /\ IF w.kind = "spinner"
           THEN /\ spPc' = [spPc EXCEPT ![w.job] = "check"]
                /\ wkPc' = wkPc
           ELSE /\ wkPc' = [wkPc EXCEPT ![w.job] = "job"]
                /\ spPc' = spPc
    /\ workQueue' = Tail(workQueue)
    /\ UNCHANGED <<executor_workers, hPc, done, jobRet, screen, edits, sent>>
    /\ UNCHANGED notJobVars

Release(k, j) == [t \in 1..MaxWorkers |-> IF thr[t] = Task(k, j) THEN Idle ELSE thr[t]]

\* spinner: while not done.is_set()
SpinnerCheck(j) ==
    /\ Running("spinner", j)
    /\ spPc[j] = "check"
    /\ IF done[j]
       THEN /\ spPc' = [spPc EXCEPT ![j] = "exit"]
            /\ thr' = Release("spinner", j)
       ELSE /\ spPc' = [spPc EXCEPT ![j] = "edit"]
            /\ thr' = thr
    /\ UNCHANGED <<executor_workers, workQueue, hPc, wkPc, done, jobRet, screen,
                   edits, sent>>
    /\ UNCHANGED notJobVars

\* spinner: self.bot.edit_message_text(...) inside try/except: pass, then
\* done.wait(1.2); the edit lands or fails, the failure is swallowed
SpinnerEdit(j) ==
    /\ Running("spinner", j)
    /\ spPc[j] = "edit"
    /\ spPc' = [spPc EXCEPT ![j] = "check"]
    /\ \/ edits' = [edits EXCEPT ![j] = Land(@, "spin")]
       \/ edits' = edits
    /\ UNCHANGED <<executor_workers, workQueue, thr, hPc, wkPc, done, jobRet,
                   screen, sent>>
    /\ UNCHANGED notJobVars

\* a runner without its except clause: the exception leaves the task
AfterJobUncaught(r, fmtOk) ==
    IF r = "returned" /\ fmtOk
    THEN [pc |-> "setDone", screen |-> "ok"]
    ELSE [pc |-> "escaped", screen |-> "none"]

\* runner: the try body builds the result screen, `except Exception as e`
\* builds the failure screen; both go on to done.set()
AfterJob(r, fmtOk) ==
    [pc |-> "setDone", screen |-> IF r = "returned" /\ fmtOk THEN "ok" ELSE "fail"]

\* runner: result = job(); text = self.format_job_result(head, result)
\* job() returns or raises; formatting a returned result may raise too
RunnerJob(j) ==
    /\ Running("runner", j)
    /\ wkPc[j] = "job"
    /\ \E r \in {"returned", "raised"}, fmtOk \in BOOLEAN :
        /\ jobRet' = [jobRet EXCEPT ![j] = r]
        /\ wkPc' = [wkPc EXCEPT ![j] = AfterJob(r, fmtOk).pc]
        /\ screen' = [screen EXCEPT ![j] = AfterJob(r, fmtOk).screen]
    /\ UNCHANGED <<executor_workers, workQueue, thr, hPc, spPc, done, edits, sent>>
    /\ UNCHANGED notJobVars

\* runner: done.set()
RunnerSetDone(j) ==
    /\ Running("runner", j)
    /\ wkPc[j] = "setDone"
    /\ wkPc' = [wkPc EXCEPT ![j] = "sleep"]
    /\ done' = [done EXCEPT ![j] = TRUE]
    /\ UNCHANGED <<executor_workers, workQueue, thr, hPc, spPc, jobRet, screen,
                   edits, sent>>
    /\ UNCHANGED notJobVars

\* runner: time.sleep(0.2); the sleep delays this thread only
RunnerSleep(j) ==
    /\ Running("runner", j)
    /\ wkPc[j] = "sleep"
    /\ wkPc' = [wkPc EXCEPT ![j] = "final"]
    /\ UNCHANGED <<executor_workers, workQueue, thr, hPc, spPc, done, jobRet,
                   screen, edits, sent>>
    /\ UNCHANGED notJobVars

\* edit_or_send: the edit lands, or it raises and the screen is sent as a
\* new message by send_screen, whose own failure is logged
EditOrSend(j, scr) ==
    \/ /\ edits' = [edits EXCEPT ![j] = Land(@, scr)]
       /\ sent' = sent
    \/ /\ edits' = edits
       /\ sent' = [sent EXCEPT ![j] = 1]
    \/ /\ edits' = edits
       /\ sent' = sent

\* runner: self.edit_or_send(chat_id, msg_id, screen); finally: done.set()
RunnerFinal(j) ==
    /\ Running("runner", j)
    /\ wkPc[j] = "final"
    /\ wkPc' = [wkPc EXCEPT ![j] = "exit"]
    /\ EditOrSend(j, screen[j])
    /\ done' = [done EXCEPT ![j] = TRUE]
    /\ thr' = Release("runner", j)
    /\ UNCHANGED <<executor_workers, workQueue, hPc, spPc, jobRet, screen>>
    /\ UNCHANGED notJobVars

NextJob ==
    \/ \E j \in Jobs : SubmitSpinner(j)
    \/ \E j \in Jobs : SubmitRunner(j)
    \/ \E j \in Jobs : InterimEdit(j)
    \/ \E t \in 1..MaxWorkers : ExecTake(t)
    \/ \E j \in Jobs : SpinnerCheck(j)
    \/ \E j \in Jobs : SpinnerEdit(j)
    \/ \E j \in Jobs : RunnerJob(j)
    \/ \E j \in Jobs : RunnerSetDone(j)
    \/ \E j \in Jobs : RunnerSleep(j)
    \/ \E j \in Jobs : RunnerFinal(j)



(***************************************************************************)
(* The threads of the executor, the handler threads and the tasks they run *)
(* are scheduled by the operating system: a step that stays possible is    *)
(* eventually taken.  job() itself always ends (RunnerJob).                *)
(***************************************************************************)
FairJob ==
    /\ \A j \in Jobs : WF_vars(SubmitSpinner(j)) /\ WF_vars(SubmitRunner(j))
                         /\ WF_vars(InterimEdit(j))
    /\ \A t \in 1..MaxWorkers : WF_vars(ExecTake(t))
    /\ \A j \in Jobs : WF_vars(SpinnerCheck(j)) /\ WF_vars(SpinnerEdit(j))
    /\ \A j \in Jobs : WF_vars(RunnerJob(j)) /\ WF_vars(RunnerSetDone(j))
                         /\ WF_vars(RunnerSleep(j)) /\ WF_vars(RunnerFinal(j))


SpinAfterOutcome(j) ==
    \E i, k \in DOMAIN edits[j] :
        i < k /\ IsOutcome(edits[j][i]) /\ edits[j][k] = "spin"

OutcomeEdits(j) == {i \in DOMAIN edits[j] : IsOutcome(edits[j][i])}

\* C1: within one run_long_job invocation whose job() returns normally, the
\* edits of the message hold at most one outcome edit and no spinner edit
\* lands after it, whatever the interleaving of spinner and worker.
C1_NoSpinnerEditAfterOutcome ==
    \A j \in Jobs :
        jobRet[j] = "returned" =>
            /\ Cardinality(OutcomeEdits(j)) <= 1
            /\ ~SpinAfterOutcome(j)

\* C2: every run_long_job invocation that has submitted its two tasks is
\* eventually followed by the end of its worker (the outcome edit or the
\* fallback send) and by the end of its spinner.
C2_OutcomeAndSpinnerEnd ==
    \A j \in Jobs : (hPc[j] = "returned") ~> (wkPc[j] = "exit" /\ spPc[j] = "exit")

\* the run_long_job invocation followed on its own
FirstJob == CHOOSE j \in Jobs : \A k \in Jobs : j <= k

\* job() raised, or the formatting of its result did
Failed(j) == jobRet[j] = "raised" \/ (jobRet[j] = "returned" /\ screen[j] # "ok")

Outcomes(j) == Cardinality(OutcomeEdits(j)) + sent[j]

\* C16: when job() or the formatting of its result raises, the worker stays
\* inside its task with the failure screen, sets the completion signal
\* before its one edit_or_send, delivers at most that one outcome and it is
\* the failure screen, and the worker and the spinner both end
C16_FailureIsShownAndSpinnerEnds ==
    /\ [](Failed(FirstJob) =>
            /\ screen[FirstJob] = "fail"
            /\ wkPc[FirstJob] \in {"setDone", "sleep", "final", "exit"}
            /\ wkPc[FirstJob] \in {"sleep", "final", "exit"} => done[FirstJob]
            /\ wkPc[FirstJob] # "exit" => Outcomes(FirstJob) = 0
            /\ Outcomes(FirstJob) <= 1
            /\ \A i \in DOMAIN edits[FirstJob] : edits[FirstJob][i] # "ok")
    /\ Failed(FirstJob) ~> (wkPc[FirstJob] = "exit" /\ spPc[FirstJob] = "exit")

C16_Witness ==
    /\ jobRet[FirstJob] = "raised"
    /\ wkPc[FirstJob] = "exit"
    /\ spPc[FirstJob] = "exit"
    /\ \E i \in DOMAIN edits[FirstJob] : edits[FirstJob][i] = "fail"

RunningAfterOutcome(j) ==
    \E i, k \in DOMAIN edits[j] :
        i < k /\ IsOutcome(edits[j][i]) /\ edits[j][k] = "running"

\* C36: the interim running screen that run_long_job returns is written to
\* the message before the outcome screen of the job: the write of the
\* dispatcher never lands after the outcome edit, however short the job is,
\* so the outcome stays the last content of the message.
C36_InterimNeverAfterOutcome ==
    \A j \in Jobs : ~RunningAfterOutcome(j)


(***************************************************************************)
(* Instance lock: App._acquire_instance_lock (modules/app.py), one step    *)
(* per file-system call.  A process is named by its pid.                   *)
(***************************************************************************)
\* number of bot processes started over the life of the lock directory
MaxProcs == 3

Procs == 1..MaxProcs

InitLock ==
    /\ lockDir = FALSE
    /\ pidFile = 0
    /\ alive = [p \in Procs |-> FALSE]
    /\ lPc = [p \in Procs |-> "notStarted"]
    /\ probePid = [p \in Procs |-> 0]

\* the supervisor (or an operator) starts a bot process: App.run
LockStart(p) ==
    /\ lPc[p] = "notStarted"
    /\ lPc' = [lPc EXCEPT ![p] = "mkdir"]
    /\ alive' = [alive EXCEPT ![p] = TRUE]
    /\ UNCHANGED <<lockDir, pidFile, probePid>>
    /\ UNCHANGED notLockVars

\* lock_dir.mkdir(parents=True, exist_ok=False)
LockMkdir(p) ==
    /\ alive[p]
    /\ lPc[p] = "mkdir"
    /\ IF lockDir
       THEN /\ lPc' = [lPc EXCEPT ![p] = "read"]
            /\ UNCHANGED <<lockDir, pidFile>>
       ELSE /\ lPc' = [lPc EXCEPT ![p] = "write"]
            /\ lockDir' = TRUE
            /\ pidFile' = 0
    /\ UNCHANGED <<alive, probePid>>
    /\ UNCHANGED notLockVars

\* except FileExistsError: pid = int(pid_path.read_text().strip()); a
\* missing directory, a missing or an empty pid file raises: stale lock
LockReadPid(p) ==
    /\ alive[p]
    /\ lPc[p] = "read"
    /\ IF lockDir /\ pidFile # 0
       THEN /\ lPc' = [lPc EXCEPT ![p] = "probe"]
            /\ probePid' = [probePid EXCEPT ![p] = pidFile]
       ELSE /\ lPc' = [lPc EXCEPT ![p] = "rmtree"]
            /\ probePid' = probePid
    /\ UNCHANGED <<lockDir, pidFile, alive>>
    /\ UNCHANGED notLockVars

\* a probe that finds every pid alive
PidAliveAlways(pid) == TRUE

\* os.kill(pid, 0) returns: a process with that pid exists
PidAlive(pid) == alive[pid]

\* os.kill(pid, 0): no exception: return False; exception: stale lock
LockProbe(p) ==
    /\ alive[p]
    /\ lPc[p] = "probe"
    /\ lPc' = [lPc EXCEPT ![p] = IF PidAlive(probePid[p]) THEN "refused" ELSE "rmtree"]
    /\ UNCHANGED <<lockDir, pidFile, alive, probePid>>
    /\ UNCHANGED notLockVars

\* shutil.rmtree(lock_dir, ignore_errors=True)
LockRmtree(p) ==
    /\ alive[p]
    /\ lPc[p] = "rmtree"
    /\ lPc' = [lPc EXCEPT ![p] = "remkdir"]
    /\ lockDir' = FALSE
    /\ pidFile' = 0
    /\ UNCHANGED <<alive, probePid>>
    /\ UNCHANGED notLockVars

\* lock_dir.mkdir(parents=True, exist_ok=False) of the retry; except
\* Exception: return False
LockRemkdir(p) ==
    /\ alive[p]
    /\ lPc[p] = "remkdir"
    /\ IF lockDir
       THEN /\ lPc' = [lPc EXCEPT ![p] = "refused"]
            /\ UNCHANGED <<lockDir, pidFile>>
       ELSE /\ lPc' = [lPc EXCEPT ![p] = "write"]
            /\ lockDir' = TRUE
            /\ pidFile' = 0
    /\ UNCHANGED <<alive, probePid>>
    /\ UNCHANGED notLockVars

\* pid_path.write_text(str(os.getpid())) inside try/except: pass, then
\* atexit.register(...); return True
LockWritePid(p) ==
    /\ alive[p]
    /\ lPc[p] = "write"
    /\ lPc' = [lPc EXCEPT ![p] = "held"]
    /\ pidFile' = IF lockDir THEN p ELSE pidFile
    /\ UNCHANGED <<lockDir, alive, probePid>>
    /\ UNCHANGED notLockVars

\* the process is killed or the router loses power: no exit handler runs
LockCrash(p) ==
    /\ alive[p]
    /\ alive' = [alive EXCEPT ![p] = FALSE]
    /\ lPc' = [lPc EXCEPT ![p] = "dead"]
    /\ UNCHANGED <<lockDir, pidFile, probePid>>
    /\ UNCHANGED notLockVars

\* normal exit of a process that returned True: the handler registered by
\* atexit.register runs shutil.rmtree(lock_dir, ignore_errors=True)
LockExitHolder(p) ==
    /\ alive[p]
    /\ lPc[p] = "held"
    /\ alive' = [alive EXCEPT ![p] = FALSE]
    /\ lPc' = [lPc EXCEPT ![p] = "exited"]
    /\ lockDir' = FALSE
    /\ pidFile' = 0
    /\ UNCHANGED probePid
    /\ UNCHANGED notLockVars

\* App.run: if not self._acquire_instance_lock(): return; the process ends
\* with no exit handler registered
LockExitRefused(p) ==
    /\ alive[p]
    /\ lPc[p] = "refused"
    /\ alive' = [alive EXCEPT ![p] = FALSE]
    /\ lPc' = [lPc EXCEPT ![p] = "gaveUp"]
    /\ UNCHANGED <<lockDir, pidFile, probePid>>
    /\ UNCHANGED notLockVars

NextLock ==
    \/ \E p \in Procs : LockStart(p)
    \/ \E p \in Procs : LockMkdir(p)
    \/ \E p \in Procs : LockReadPid(p)
    \/ \E p \in Procs : LockProbe(p)
    \/ \E p \in Procs : LockRmtree(p)
    \/ \E p \in Procs : LockRemkdir(p)
    \/ \E p \in Procs : LockWritePid(p)
    \/ \E p \in Procs : LockCrash(p)
    \/ \E p \in Procs : LockExitHolder(p)
    \/ \E p \in Procs : LockExitRefused(p)

Holders == {p \in Procs : alive[p] /\ lPc[p] = "held"}

\* the processes inside _acquire_instance_lock
Acquiring ==
    {p \in Procs : alive[p] /\
        lPc[p] \in {"mkdir", "read", "probe", "rmtree", "remkdir", "write"}}

\* a bot process is started while no other one is inside the acquisition
LockStartAlone(p) == Acquiring = {} /\ LockStart(p)

NextLockAlone ==
    \/ \E p \in Procs : LockStartAlone(p)
    \/ \E p \in Procs : LockMkdir(p)
    \/ \E p \in Procs : LockReadPid(p)
    \/ \E p \in Procs : LockProbe(p)
    \/ \E p \in Procs : LockRmtree(p)
    \/ \E p \in Procs : LockRemkdir(p)
    \/ \E p \in Procs : LockWritePid(p)
    \/ \E p \in Procs : LockCrash(p)
    \/ \E p \in Procs : LockExitHolder(p)
    \/ \E p \in Procs : LockExitRefused(p)

\* a running process goes on with its acquisition
FairLock ==
    \A p \in Procs :
        /\ WF_vars(LockMkdir(p)) /\ WF_vars(LockReadPid(p))
        /\ WF_vars(LockProbe(p)) /\ WF_vars(LockRmtree(p))
        /\ WF_vars(LockRemkdir(p)) /\ WF_vars(LockWritePid(p))

\* the lock directory is there and the pid on record is of a dead process
StaleLock == lockDir /\ pidFile # 0 /\ ~alive[pidFile]

\* C3: whatever the interleaving of the processes that run the acquisition,
\* at most one live process has got True from it.
C3_AtMostOneHolder == Cardinality(Holders) <= 1

\* C21: an acquisition attempt that starts on a stale lock (directory there,
\* recorded pid dead) and runs on its own ends with the directory there and
\* its own pid on record, having returned True, unless the process is killed
\* first; on its way the probe of the dead pid leads to the removal of the
\* directory and to one more mkdir
C21_StaleLockIsReclaimed ==
    /\ \A p \in Procs :
          (StaleLock /\ alive[p] /\ lPc[p] = "mkdir") ~>
              ((lPc[p] = "held" /\ lockDir /\ pidFile = p) \/ lPc[p] = "dead")
    /\ [][\A p \in Procs :
            (lPc[p] = "probe" /\ ~alive[probePid[p]] /\ LockProbe(p))
                => lPc'[p] = "rmtree"]_vars
    /\ [][\A p \in Procs :
            (lPc[p] = "rmtree" /\ LockRmtree(p))
                => (~lockDir' /\ lPc'[p] = "remkdir")]_vars

\* a process holds the lock it reclaimed from a crashed holder
C21_Witness ==
    \E p, h \in Procs :
        /\ lPc[h] = "dead" /\ probePid[p] = h
        /\ lPc[p] = "held" /\ alive[p] /\ lockDir /\ pidFile = p

\* the exit handler of p runs in this step and the directory goes
ExitRemoves(p) == lPc[p] = "held" /\ lPc'[p] = "exited" /\ lockDir /\ ~lockDir'

\* the directory is there for a live process other than p: its pid is on
\* record, or the pid file is still to be written by it
BelongsToOther(p) ==
    /\ lockDir
    /\ \E q \in Procs \ {p} :
          alive[q] /\ (pidFile = q \/ (pidFile = 0 /\ lPc[q] = "write"))

\* C40: the exit handler of a process that acquired the lock removes the
\* directory only while the pid on record is its own, and never removes a
\* directory that belongs to another live process.
C40_ExitRemovesOnlyOwnLock ==
    [][\A p \in Procs :
          ExitRemoves(p) => (pidFile = p /\ ~BelongsToOther(p))]_vars


(***************************************************************************)
(* Lock file: App.acquire_lock (keenetic-tg-bot/modules/app.py), one step  *)
(* per system call.  A process is named by its pid.                        *)
(***************************************************************************)
InitFlock ==
    /\ flPc = [p \in Procs |-> "notStarted"]
    /\ flOwner = 0
    /\ flText = 0

\* the supervisor (or an operator) starts a bot process: main calls
\* app.acquire_lock()
FlStart(p) ==
    /\ flPc[p] = "notStarted"
    /\ flPc' = [flPc EXCEPT ![p] = "open"]
    /\ UNCHANGED <<flOwner, flText>>
    /\ UNCHANGED notFlockVars

\* fh = open(lock_path, "w"): the file is created or truncated
FlOpen(p) ==
    /\ flPc[p] = "open"
    /\ flPc' = [flPc EXCEPT ![p] = "flock"]
    /\ flText' = 0
    /\ UNCHANGED flOwner
    /\ UNCHANGED notFlockVars

\* fcntl.flock(fh.fileno(), LOCK_EX | LOCK_NB): taken, or it raises because
\* the open file of another process holds the lock: except Exception:
\* return False
FlFlock(p) ==
    /\ flPc[p] = "flock"
    /\ IF flOwner = 0
       THEN flOwner' = p /\ flPc' = [flPc EXCEPT ![p] = "write"]
       ELSE flOwner' = flOwner /\ flPc' = [flPc EXCEPT ![p] = "refused"]
    /\ UNCHANGED flText
    /\ UNCHANGED notFlockVars

\* fh.write(str(os.getpid())); fh.flush(); self._lock_fh = fh; return True
FlWrite(p) ==
    /\ flPc[p] = "write"
    /\ flPc' = [flPc EXCEPT ![p] = "held"]
    /\ flText' = p
    /\ UNCHANGED flOwner
    /\ UNCHANGED notFlockVars

\* the process ends, by itself after False or killed at any point: the
\* kernel closes its files and drops its lock; the file keeps its content
FlExit(p) ==
    /\ flPc[p] \in {"open", "flock", "write", "held", "refused"}
    /\ flPc' = [flPc EXCEPT ![p] = "gone"]
    /\ flOwner' = IF flOwner = p THEN 0 ELSE flOwner
    /\ UNCHANGED flText
    /\ UNCHANGED notFlockVars

NextFlock ==
    \/ \E p \in Procs : FlStart(p)
    \/ \E p \in Procs : FlOpen(p)
    \/ \E p \in Procs : FlFlock(p)
    \/ \E p \in Procs : FlWrite(p)
    \/ \E p \in Procs : FlExit(p)

\* a live process has completed the acquisition and its pid is on record
FlCompleted(h) == flPc[h] = "held" /\ flOwner = h /\ flText = h

\* C20: while a live process that completed the acquisition stays alive, no
\* step of another process changes the lock or the pid on record, and no
\* other process gets True
C20_HolderKeepsLockAndPid ==
    [][\A h \in Procs :
          (FlCompleted(h) /\ flPc'[h] = "held") =>
              /\ flOwner' = h
              /\ flText' = h
              /\ \A p \in Procs \ {h} : flPc'[p] # "held"]_vars

(***************************************************************************)
(* Monitor.  Time is counted in monitor intervals.  Monitor.tick of        *)
(* keenetic-tg-bot/modules/monitor.py is one action; the earlier           *)
(* Monitor.run of modules/monitor.py is one action per check it calls.  A  *)
(* process runs one of the two generations: cfg.gen says which.            *)
(***************************************************************************)
\* number of monitor intervals a run is followed for
MaxTicks == 6
\* largest cooldown explored, in monitor intervals
MaxCooldown == 4

\* time.time() at monitor start: far above any cooldown
Epoch == MaxCooldown + 1

Svcs == {"hydra"}
Status == {"running", "stopped"}
\* what a status probe gives: a status, or "none" (quick_status returned
\* None or "", or raised: the component is skipped)
Samples == Status \cup {"none"}
Keys == {"disk", "load"} \cup Svcs

\* AppConfig of keenetic-tg-bot/modules/utils/config.py
TickCfgs ==
    [gen : {"tick"},
     notify_enabled : BOOLEAN, notify_disk_enabled : BOOLEAN,
     notify_services_enabled : BOOLEAN, notify_on_service_down : {TRUE},
     notify_cooldown_sec : 0..MaxCooldown,
     notify_disk_interval_sec : {0}, notify_load_interval_sec : {0}]

\* BotConfig of modules/config.py: the configurations explored vary the
\* service settings with the longest resource intervals, or the resource
\* intervals with the longest service cooldown
LegacyCfgs ==
    {c \in [gen : {"legacy"},
            notify_enabled : {TRUE}, notify_disk_enabled : {TRUE},
            notify_services_enabled : {TRUE}, notify_on_service_down : BOOLEAN,
            notify_cooldown_sec : 0..MaxCooldown,
            notify_disk_interval_sec : 0..MaxCooldown,
            notify_load_interval_sec : {0, MaxCooldown}] :
        \/ /\ c.notify_disk_interval_sec = MaxCooldown
           /\ c.notify_load_interval_sec = MaxCooldown
        \/ /\ c.notify_cooldown_sec = MaxCooldown
           /\ c.notify_on_service_down}

\* the configuration of the monitor while another subsystem is explored
DefaultCfg ==
    [gen |-> "tick", notify_enabled |-> TRUE, notify_disk_enabled |-> TRUE,
     notify_services_enabled |-> TRUE, notify_on_service_down |-> TRUE,
     notify_cooldown_sec |-> MaxCooldown, notify_disk_interval_sec |-> 0,
     notify_load_interval_sec |-> 0]

\* BotConfig with its switches as shipped and the longest intervals
DefaultLegacyCfg ==
    [gen |-> "legacy", notify_enabled |-> TRUE, notify_disk_enabled |-> TRUE,
     notify_services_enabled |-> TRUE, notify_on_service_down |-> TRUE,
     notify_cooldown_sec |-> MaxCooldown,
     notify_disk_interval_sec |-> MaxCooldown,
     notify_load_interval_sec |-> MaxCooldown]

\* the sample sequence up, up, down, down, down, up
Scenario == <<"running", "running", "stopped", "stopped", "stopped", "running">>
\* the service the scenario is fed to
Target == "hydra"

NoFires == [last |-> 0, gap |-> -1, held |-> FALSE]
ScenOff == [pos |-> -1, at |-> 0, notes |-> {}]

\* the checks of one loop iteration that are switched on
ChecksOf(c) ==
    IF c.gen = "legacy" THEN {"services", "resources"}
    ELSE IF ~c.notify_enabled THEN {}
    ELSE (IF c.notify_disk_enabled THEN {"disk"} ELSE {}) \cup
         (IF c.notify_services_enabled THEN {"services"} ELSE {})

\* after_error: the iteration before this one ended with an exception
\* missed: a threshold check of the iteration stayed silent although its
\* condition held and its cooldown had elapsed
NoChecks == [ran |-> {}, raised |-> {}, after_error |-> FALSE, missed |-> FALSE]

\* a loop whose thread ends with the exception of a check
RunDiesOnError(where) == "dead"

\* Monitor.run after an exception of a check: `except Exception: pass` of the
\* baseline goes on to the loop, the `except Exception` of the loop body (and
\* of self.tick()) goes on to self._stop.wait(...)
RunAfterError(where) == IF where = "start" THEN "services" ELSE "wait"

InitMon ==
    /\ mPc = "start"
    /\ now = Epoch
    /\ cfg \in TickCfgs \cup LegacyCfgs
    /\ service_state = [s \in Svcs |-> "unset"]
    /\ last_sent = [k \in Keys |-> 0]
    /\ fires = [k \in Keys |-> NoFires]
    /\ scen = [pos |-> 0, at |-> 0, notes |-> {}]
    /\ mTick = NoChecks

\* _cooldown_ok: now - self._last_sent.get(key, 0) >= cooldown_sec
CooldownOk(ls, key, cooldown) == now - ls[key] >= cooldown

\* a _cooldown_ok that returns True without recording the time
StampForgotten(ls, key) == ls

\* _cooldown_ok: self._last_sent[key] = now
Stamp(ls, key) == [ls EXCEPT ![key] = now]

\* notify_admins was called for key: the time of this firing and the
\* smallest time between two consecutive firings so far (-1: fewer than two)
Fire(f) ==
    [last |-> now,
     gap |-> IF f.last = 0 THEN -1
             ELSE IF f.gap = -1 \/ now - f.last < f.gap THEN now - f.last
             ELSE f.gap,
     held |-> f.held]

\* the condition of a check held and _cooldown_ok returned False
Hold(f) == [f EXCEPT !.held = TRUE]

\* a check that notifies once per stretch of its condition: it stays silent
\* after the condition was seen during the cooldown
GuardedOnce(tr, cond, key, cooldown) ==
    IF cond /\ CooldownOk(tr[1], key, cooldown) /\ ~tr[2][key].held
    THEN <<Stamp(tr[1], key), [tr[2] EXCEPT ![key] = Fire(@)], tr[3] \cup {key}>>
    ELSE IF cond
    THEN <<tr[1], [tr[2] EXCEPT ![key] = Hold(@)], tr[3]>>
    ELSE tr

\* one check guarded by `cond and self._cooldown_ok(key, cooldown)`: the
\* triple <<last_sent, fires, keys notified in this step>> after the check,
\* given the triple before it
Guarded(tr, cond, key, cooldown) ==
    IF cond /\ CooldownOk(tr[1], key, cooldown)
    THEN <<Stamp(tr[1], key), [tr[2] EXCEPT ![key] = Fire(@)], tr[3] \cup {key}>>
    ELSE IF cond
    THEN <<tr[1], [tr[2] EXCEPT ![key] = Hold(@)], tr[3]>>
    ELSE tr

\* the observer of a guarded check: its condition held when the cooldown of
\* its key had elapsed, and the check did not notify
Missed(ls, cond, key, cooldown, notified) ==
    cond /\ now - ls[key] >= cooldown /\ key \notin notified

\* the scenario observer: the next sample of the scenario was fed to the
\* target service, or the samples left the scenario
ScenStep(sc, st, firedNow) ==
    IF sc.pos >= 0 /\ sc.pos < Len(Scenario) /\ st = Scenario[sc.pos + 1]
    THEN [pos |-> sc.pos + 1, at |-> now,
          notes |-> sc.notes \cup
                    (IF firedNow THEN {[i |-> sc.pos + 1, at |-> now]} ELSE {})]
    ELSE ScenOff

\* Monitor.tick: the stored sample of a component after its probe
NewServiceState(prev, st) == IF st = "none" THEN prev ELSE st

\* a check that fires on every sample once a baseline is stored
ChangedEverySample(prev, st) == st # "none" /\ prev # "unset"

\* Monitor.tick: `if st != prev` on a component that has a stored sample
Changed(prev, st) == st # "none" /\ prev # "unset" /\ st # prev

RECURSIVE TickServices(_, _, _)
\* Monitor.tick: for comp_id, comp in self.app.components.items()
TickServices(tr, todo, sample) ==
    IF todo = {} THEN tr
    ELSE LET s == CHOOSE x \in todo : TRUE
         IN TickServices(
                Guarded(tr, Changed(service_state[s], sample[s]), s,
                        cfg.notify_cooldown_sec),
                todo \ {s}, sample)

\* Monitor.run / Monitor.tick of keenetic-tg-bot/modules/monitor.py
Tick ==
    /\ cfg.gen = "tick"
    /\ mPc \in {"start", "tick"}
    /\ \E diskLow \in BOOLEAN, sample \in [Svcs -> Samples], diskRaises \in BOOLEAN :
        IF ~cfg.notify_enabled
        THEN /\ mPc' = "wait"
             /\ mTick' = [mTick EXCEPT !.ran = {}, !.raised = {}]
             /\ UNCHANGED <<service_state, last_sent, fires, scen>>
        ELSE IF cfg.notify_disk_enabled /\ diskRaises
        THEN /\ mPc' = RunAfterError("tick")
             /\ mTick' = [mTick EXCEPT !.ran = {"disk"}, !.raised = {"disk"}]
             /\ UNCHANGED <<service_state, last_sent, fires, scen>>
        ELSE /\ mPc' = "wait"
             /\ LET p0 == <<last_sent, fires, {}>>
                    p1 == Guarded(p0, cfg.notify_disk_enabled /\ diskLow,
                                  "disk", cfg.notify_cooldown_sec)
                    p2 == IF cfg.notify_services_enabled
                          THEN TickServices(p1, Svcs, sample)
                          ELSE p1
                IN /\ mTick' = [mTick EXCEPT
                            !.ran = ChecksOf(cfg), !.raised = {},
                            !.missed = Missed(last_sent,
                                              cfg.notify_disk_enabled /\ diskLow,
                                              "disk", cfg.notify_cooldown_sec,
                                              p1[3])]
                   /\ last_sent' = p2[1]
                   /\ fires' = p2[2]
                   /\ IF cfg.notify_services_enabled
                      THEN /\ service_state' =
                               [s \in Svcs |->
                                   NewServiceState(service_state[s], sample[s])]
                           /\ scen' = ScenStep(scen, sample[Target], Target \in p2[3])
                      ELSE UNCHANGED <<service_state, scen>>
    /\ UNCHANGED <<now, cfg>>
    /\ UNCHANGED notMonVars

RECURSIVE LegacyServices(_, _, _)
\* Monitor._check_services: for k, v in current.items()
LegacyServices(tr, todo, sample) ==
    IF todo = {} THEN tr
    ELSE LET s == CHOOSE x \in todo : TRUE
         IN LegacyServices(
                Guarded(tr,
                        /\ service_state[s] = "running"
                        /\ sample[s] = "stopped"
                        /\ cfg.notify_on_service_down,
                        s, cfg.notify_cooldown_sec),
                todo \ {s}, sample)

\* Monitor._check_services of modules/monitor.py: the baseline call of
\* Monitor.run (from "start") and the call of every loop iteration
LegacyCheckServices ==
    /\ cfg.gen = "legacy"
    /\ mPc \in {"start", "services"}
    /\ \/ /\ mPc' = IF mPc = "start" THEN "services" ELSE "resources"
          /\ mTick' = IF mPc = "start" THEN mTick
                      ELSE [mTick EXCEPT !.ran = {"services"}]
          /\ \E sample \in [Svcs -> Status] :
              LET p == LegacyServices(<<last_sent, fires, {}>>, Svcs, sample)
              IN /\ last_sent' = p[1]
                 /\ fires' = p[2]
                 /\ service_state' = sample
                 /\ scen' = ScenStep(scen, sample[Target], Target \in p[3])
       \/ \* a probe of the check raises
          /\ mPc' = RunAfterError(mPc)
          /\ mTick' = IF mPc = "start" THEN mTick
                      ELSE [mTick EXCEPT !.ran = {"services"},
                                         !.raised = {"services"}]
          /\ UNCHANGED <<service_state, last_sent, fires, scen>>
    /\ UNCHANGED <<now, cfg>>
    /\ UNCHANGED notMonVars

\* Monitor._check_resources of modules/monitor.py
LegacyCheckResources ==
    /\ cfg.gen = "legacy"
    /\ mPc = "resources"
    /\ \/ /\ mPc' = "wait"
          /\ \E loadHigh \in BOOLEAN, diskLow \in BOOLEAN :
              LET p1 == Guarded(<<last_sent, fires, {}>>, loadHigh, "load",
                                cfg.notify_load_interval_sec)
                  p2 == Guarded(p1, diskLow, "disk", cfg.notify_disk_interval_sec)
              IN /\ mTick' = [mTick EXCEPT
                          !.ran = @ \cup {"resources"},
                          !.missed =
                              \/ Missed(last_sent, loadHigh, "load",
                                        cfg.notify_load_interval_sec, p1[3])
                              \/ Missed(last_sent, diskLow, "disk",
                                        cfg.notify_disk_interval_sec, p2[3])]
                 /\ last_sent' = p2[1]
                 /\ fires' = p2[2]
       \/ \* a probe of the check raises
          /\ mPc' = RunAfterError(mPc)
          /\ mTick' = [mTick EXCEPT !.ran = @ \cup {"resources"},
                                    !.raised = @ \cup {"resources"}]
          /\ UNCHANGED <<last_sent, fires>>
    /\ UNCHANGED <<now, cfg, service_state, scen>>
    /\ UNCHANGED notMonVars

\* Monitor.run: self._stop.wait(interval) at the end of a loop iteration
MonWait ==
    /\ mPc = "wait"
    /\ now < Epoch + MaxTicks - 1
    /\ mPc' = IF cfg.gen = "tick" THEN "tick" ELSE "services"
    /\ now' = now + 1
    /\ mTick' = [ran |-> {}, raised |-> {}, after_error |-> mTick.raised # {},
                 missed |-> FALSE]
    /\ UNCHANGED <<cfg, service_state, last_sent, fires, scen>>
    /\ UNCHANGED notMonVars

NextMon == Tick \/ LegacyCheckServices \/ LegacyCheckResources \/ MonWait

\* the cooldown of the low-disk notification
DiskCooldown ==
    IF cfg.gen = "tick" THEN cfg.notify_cooldown_sec
    ELSE cfg.notify_disk_interval_sec

\* service notifications are switched on
SvcNotifyOn ==
    IF cfg.gen = "tick" THEN cfg.notify_enabled /\ cfg.notify_services_enabled
    ELSE cfg.notify_on_service_down

ScenDone == scen.pos = Len(Scenario)
ScenIdx == {n.i : n \in scen.notes}
ScenAt(i) == (CHOOSE n \in scen.notes : n.i = i).at

\* C4 as claimed: the samples up, up, down, down, down, up fed to a service
\* check with a cooldown longer than the sampling interval yield exactly
\* two notifications.
C4_ExactlyTwoNotifications ==
    (ScenDone /\ SvcNotifyOn /\ cfg.notify_cooldown_sec > 1)
        => Cardinality(scen.notes) = 2

\* C4 as amended: the samples up, up, down, down, down, up yield a
\* notification at the up->down sample (the third); Monitor.tick sends one
\* at the down->up sample (the sixth) exactly when the cooldown of the
\* service key has elapsed since the first one, the earlier
\* Monitor._check_services never does; no other sample notifies.
C4_EdgeNotificationsUnderCooldown ==
    (ScenDone /\ SvcNotifyOn) =>
        /\ 3 \in ScenIdx
        /\ ScenIdx \subseteq {3, 6}
        /\ 6 \in ScenIdx <=>
                /\ cfg.gen = "tick"
                /\ scen.at - ScenAt(3) >= cfg.notify_cooldown_sec

C4_Witness == ScenDone /\ SvcNotifyOn /\ ScenIdx = {3, 6}

\* C5: any two consecutive low-disk notifications are at least one cooldown
\* apart, however many ticks saw the disk low in between.
C5_LowDiskOncePerCooldown ==
    fires["disk"].gap # -1 => fires["disk"].gap >= DiskCooldown

C5_Witness ==
    /\ DiskCooldown >= 2
    /\ fires["disk"].gap = DiskCooldown
    /\ fires["disk"].held

C14_RemainingChecksStillRun ==
    (mPc = "wait" /\ mTick.raised # {}) => ChecksOf(cfg) \subseteq mTick.ran

\* the iterations of the loop that are followed by another one
Waits == Epoch .. (Epoch + MaxTicks - 2)

\* C15: an exception of a check never ends the loop: the thread stays at one
\* of its program points, and the iteration in which a check raised is
\* followed, one wait later, by a finished iteration
C15_LoopSurvivesCheckError ==
    /\ [](mPc \in {"start", "tick", "services", "resources", "wait"})
    /\ \A n \in Waits :
          (now = n /\ mTick.raised # {}) ~> (now = n + 1 /\ mPc = "wait")

C15_Witness ==
    /\ mTick.after_error
    /\ mPc = "wait"
    /\ mTick.ran # {}

(***************************************************************************)
(* Pending input: PendingStore (modules/ui.py).  set runs under the lock;  *)
(* pop and peek read the dictionary under the lock and compare the entry   *)
(* with time.time() after releasing it, so time may pass in between.       *)
(***************************************************************************)
\* number of set calls
MaxSets == 2
\* largest ttl_sec passed to set
MaxTtl == 1
\* the last instant of the clock
MaxPendTime == 3

PendKeys == {<<101, 101>>}
PendKinds == {"file_upload"}
PendThreads == {"h1", "h2"}

\* no entry: dict.pop(key, None) / dict.get(key) returned None
NoPending == [id |-> 0, kind |-> "none", expires_at |-> 0]
NoRead == [op |-> "none", key |-> <<0, 0>>, p |-> NoPending,
           want |-> NoPending, last |-> 0, at |-> 0, ret |-> NoPending]

InitPend ==
    /\ pNow = 0
    /\ pending = [k \in PendKeys |-> NoPending]
    /\ pSets = 0
    /\ pPc = [t \in PendThreads |-> "idle"]
    /\ pRead = [t \in PendThreads |-> NoRead]
    /\ pWant = [k \in PendKeys |-> NoPending]
    /\ pLast = [k \in PendKeys |-> 0]

\* a pop that reads the entry and leaves it in the dictionary
RemovedNothing(store, k) == store

\* self._pending.pop(key, None): the dictionary afterwards
Removed(store, k) == [store EXCEPT ![k] = NoPending]

\* a read that never finds an entry too old
ExpiredNever(p, t) == FALSE

\* p.expires_at < time.time()
Expired(p, t) == p.expires_at < t

\* pop / peek: `if p and p.expires_at < time.time(): return None`, `return p`
ReadResult(p, t) == IF p # NoPending /\ Expired(p, t) THEN NoPending ELSE p

\* PendingStore.set
PendSet(k, kind, ttl_sec) ==
    /\ pSets < MaxSets
    /\ pSets' = pSets + 1
    /\ LET e == [id |-> pSets + 1, kind |-> kind, expires_at |-> pNow + ttl_sec]
       IN  /\ pending' = [pending EXCEPT ![k] = e]
           /\ pWant' = [pWant EXCEPT ![k] = e]
    /\ pLast' = [pLast EXCEPT ![k] = pSets + 1]
    /\ UNCHANGED <<pNow, pPc, pRead>>
    /\ UNCHANGED notPendVars

\* PendingStore.pop: `with self._lock: p = self._pending.pop(key, None)`
PopTake(t, k) ==
    /\ pPc[t] = "idle"
    /\ pPc' = [pPc EXCEPT ![t] = "read"]
    /\ pRead' = [pRead EXCEPT ![t] =
           [op |-> "pop", key |-> k, p |-> pending[k], want |-> pWant[k],
            last |-> pLast[k], at |-> pNow, ret |-> NoPending]]
    /\ pending' = Removed(pending, k)
    /\ pWant' = [pWant EXCEPT ![k] = NoPending]
    /\ UNCHANGED <<pNow, pSets, pLast>>
    /\ UNCHANGED notPendVars

\* PendingStore.peek: `with self._lock: p = self._pending.get(key)`
PeekTake(t, k) ==
    /\ pPc[t] = "idle"
    /\ pPc' = [pPc EXCEPT ![t] = "read"]
    /\ pRead' = [pRead EXCEPT ![t] =
           [op |-> "peek", key |-> k, p |-> pending[k], want |-> pWant[k],
            last |-> pLast[k], at |-> pNow, ret |-> NoPending]]
    /\ UNCHANGED <<pNow, pending, pSets, pWant, pLast>>
    /\ UNCHANGED notPendVars

\* pop / peek: the expiry test and the return
PendReturn(t) ==
    /\ pPc[t] = "read"
    /\ pPc' = [pPc EXCEPT ![t] = "idle"]
    /\ pRead' = [pRead EXCEPT ![t] =
           [@ EXCEPT !.at = pNow, !.ret = ReadResult(pRead[t].p, pNow)]]
    /\ UNCHANGED <<pNow, pending, pSets, pWant, pLast>>
    /\ UNCHANGED notPendVars

\* time passes
PendTick ==
    /\ pNow < MaxPendTime
    /\ pNow' = pNow + 1
    /\ UNCHANGED <<pending, pSets, pPc, pRead, pWant, pLast>>
    /\ UNCHANGED notPendVars

NextPend ==
    \/ \E k \in PendKeys, kind \in PendKinds, ttl_sec \in 0..MaxTtl :
           PendSet(k, kind, ttl_sec)
    \/ \E t \in PendThreads, k \in PendKeys : PopTake(t, k)
    \/ \E t \in PendThreads, k \in PendKeys : PeekTake(t, k)
    \/ \E t \in PendThreads : PendReturn(t)
    \/ PendTick

\* a pop or peek of thread t that has returned
Returned(t, op) == pPc[t] = "idle" /\ pRead[t].op = op

\* C6: a pop made while the entry set for its key has not been taken by an
\* earlier pop returns that entry (unless it has expired meanwhile), and a
\* pop made after an earlier pop took the entry, with no set in between,
\* returns absence: an entry is returned by pop at most once.
C6_PopReturnsEntryOnce ==
    \A t \in PendThreads : Returned(t, "pop") =>
        /\ pRead[t].want = NoPending => pRead[t].ret = NoPending
        /\ (pRead[t].want # NoPending /\ pRead[t].at <= pRead[t].want.expires_at)
               => pRead[t].ret = pRead[t].want

C6_Witness ==
    \E t, u \in PendThreads :
        /\ Returned(t, "pop") /\ Returned(u, "pop")
        /\ pRead[t].ret # NoPending
        /\ pRead[u].key = pRead[t].key
        /\ pRead[u].last = pRead[t].ret.id
        /\ pRead[u].want = NoPending
        /\ pRead[u].ret = NoPending

\* C7: a pop or peek whose expiry test runs after the expires_at of the
\* entry it found returns absence, whether or not a pop preceded it.
C7_ExpiredNeverReturned ==
    \A t \in PendThreads :
        (pPc[t] = "idle" /\ pRead[t].ret # NoPending)
            => pRead[t].at <= pRead[t].ret.expires_at

C7_Witness ==
    \E t \in PendThreads :
        /\ Returned(t, "peek")
        /\ pRead[t].p # NoPending
        /\ pRead[t].want = pRead[t].p
        /\ pRead[t].at > pRead[t].p.expires_at
        /\ pRead[t].ret = NoPending

(***************************************************************************)
(* Shell result cache: Shell.run (keenetic-tg-bot/modules/utils/shell.py). *)
(* A call is two steps: the cache lookup, and, on a miss, the end of the   *)
(* command with the store into the cache.  No lock is taken.               *)
(***************************************************************************)
\* number of Shell.run calls
MaxCalls == 3
\* the last instant of the clock, in seconds
MaxShTime == 6
\* Shell.__init__: cache_ttl_sec: int = 3
DefaultCacheTtl == 3

Cmds == {"opkg list-installed", "df -k /opt"}
ShThreads == {"w1", "w2"}
\* the cache_ttl_sec argument: omitted (None), or a number
TtlArgs == {[given |-> FALSE, v |-> 0]} \cup
           {[given |-> TRUE, v |-> x] : x \in {0, 5}}
\* the command and the ttl of the three-call scenario
ScenCmd == "opkg list-installed"
ScenArg == [given |-> TRUE, v |-> 5]

\* the calls explored: every ttl for ScenCmd, the scenario's ttl for the rest
ShInputs == {in \in Cmds \X TtlArgs : in[1] = ScenCmd \/ in[2] = ScenArg}

NoCache == [ts |-> -1, res |-> 0]
NoCall == [cmd |-> "", arg |-> [given |-> FALSE, v |-> 0], ttl |-> 0, now |-> 0,
           seen |-> NoCache, hit |-> FALSE, run |-> 0, ret |-> 0]
ShScenOff == [pos |-> -1, t0 |-> 0, hits |-> <<>>]

InitShell ==
    /\ shNow = 0
    /\ shCache = [c \in Cmds |-> NoCache]
    /\ shPc = [t \in ShThreads |-> "idle"]
    /\ shCall = [t \in ShThreads |-> NoCall]
    /\ shCalls = 0
    /\ shExecs = 0
    /\ shScen = [pos |-> 0, t0 |-> 0, hits |-> <<>>]

\* ttl = self.cache_ttl_sec if cache_ttl_sec is None else max(0, int(cache_ttl_sec))
Ttl(arg) == IF ~arg.given THEN DefaultCacheTtl
            ELSE IF arg.v > 0 THEN arg.v ELSE 0

\* an entry counts only while it is younger than the ttl
CacheValidStrict(entry, t, ttl) == entry # NoCache /\ t - entry.ts < ttl

\* `cached and (now - cached[0]) <= ttl`
CacheValid(entry, t, ttl) == entry # NoCache /\ t - entry.ts <= ttl

\* the scenario: a first call of ScenCmd with ttl 5 on an empty cache, the
\* same call 2 s later, the same call again more than 5 s after the first;
\* every call made while no other call is running
ShScenStep(sc, t, cmd, arg, hit) ==
    LET alone == \A u \in ShThreads \ {t} : shPc[u] = "idle"
        same == cmd = ScenCmd /\ arg = ScenArg /\ alone
    IN  IF sc.pos = 0 /\ same /\ shCalls = 0
        THEN [pos |-> 1, t0 |-> shNow, hits |-> <<hit>>]
        ELSE IF sc.pos = 1 /\ same /\ shNow = sc.t0 + 2
        THEN [pos |-> 2, t0 |-> sc.t0, hits |-> Append(sc.hits, hit)]
        ELSE IF sc.pos = 2 /\ same /\ shNow > sc.t0 + ScenArg.v
        THEN [pos |-> 3, t0 |-> sc.t0, hits |-> Append(sc.hits, hit)]
        ELSE ShScenOff

\* Shell.run up to the cache lookup: returns the cached result, or starts
\* the command
ShBegin(t, cmd, arg) ==
    /\ shPc[t] = "idle"
    /\ shCalls < MaxCalls
    /\ shCalls' = shCalls + 1
    /\ LET ttl == Ttl(arg)
           entry == shCache[cmd]
           hit == ttl > 0 /\ CacheValid(entry, shNow, ttl)
       IN  /\ shCall' = [shCall EXCEPT ![t] =
                  [cmd |-> cmd, arg |-> arg, ttl |-> ttl, now |-> shNow,
                   seen |-> entry, hit |-> hit,
                   run |-> IF hit THEN 0 ELSE shExecs + 1,
                   ret |-> IF hit THEN entry.res ELSE 0]]
           /\ shPc' = [shPc EXCEPT ![t] = IF hit THEN "idle" ELSE "exec"]
           /\ shExecs' = IF hit THEN shExecs ELSE shExecs + 1
           /\ shScen' = ShScenStep(shScen, t, cmd, arg, hit)
    /\ UNCHANGED <<shNow, shCache>>
    /\ UNCHANGED notShellVars

\* Shell.run from the end of subprocess.run: `if ttl > 0: self._cache[key] =
\* (now, res)`, `return res`
ShFinish(t) ==
    /\ shPc[t] = "exec"
    /\ shPc' = [shPc EXCEPT ![t] = "idle"]
    /\ shCall' = [shCall EXCEPT ![t].ret = shCall[t].run]
    /\ shCache' = IF shCall[t].ttl > 0
                  THEN [shCache EXCEPT ![shCall[t].cmd] =
                            [ts |-> shCall[t].now, res |-> shCall[t].run]]
                  ELSE shCache
    /\ UNCHANGED <<shNow, shCalls, shExecs, shScen>>
    /\ UNCHANGED notShellVars

\* time passes
ShTick ==
    /\ shNow < MaxShTime
    /\ shNow' = shNow + 1
    /\ UNCHANGED <<shCache, shPc, shCall, shCalls, shExecs, shScen>>
    /\ UNCHANGED notShellVars

NextShell ==
    \/ \E t \in ShThreads, in \in ShInputs : ShBegin(t, in[1], in[2])
    \/ \E t \in ShThreads : ShFinish(t)
    \/ ShTick

\* C8: a call given a ttl > 0 returns the cached result, running nothing,
\* exactly when the cache holds an entry for its command no older than that
\* ttl; so of two calls with ttl 5 made 2 s apart the second runs nothing,
\* and a third one made more than 5 s after the first runs the command again.
C8_CachedIffFresh ==
    /\ \A t \in ShThreads :
           (shCall[t] # NoCall /\ shCall[t].arg.given /\ shCall[t].arg.v > 0) =>
               /\ shCall[t].hit <=>
                      /\ shCall[t].seen # NoCache
                      /\ shCall[t].now - shCall[t].seen.ts <= shCall[t].arg.v
               /\ shCall[t].hit =>
                      shCall[t].run = 0 /\ shCall[t].ret = shCall[t].seen.res
               /\ ~shCall[t].hit => shCall[t].run # 0
    /\ shScen.pos >= 2 => (~shScen.hits[1] /\ shScen.hits[2])
    /\ shScen.pos = 3 => (~shScen.hits[3] /\ shExecs = 2)

C8_Witness == shScen.pos = 3 /\ shExecs = 2

\* C9: two calls with a ttl > 0 for the same command never have the command
\* running at the same time.
C9_OneExecutionPerCommand ==
    \A t, u \in ShThreads :
        (/\ t # u
         /\ shPc[t] = "exec" /\ shPc[u] = "exec"
         /\ shCall[t].cmd = shCall[u].cmd
         /\ shCall[t].ttl > 0 /\ shCall[u].ttl > 0) => FALSE

\* the command of thread t ends in this step
Executed(t) == shPc[t] = "exec" /\ shPc'[t] = "idle"

\* C37: every call that runs the command stores its result as the cache
\* entry of that command, whatever ttl the call was given, so that a later
\* call with a ttl > 0 made within that ttl is answered from the entry.
C37_ExecutionStoresResult ==
    [][\A t \in ShThreads :
          Executed(t) =>
              /\ shCache'[shCall[t].cmd] # NoCache
              /\ shCache'[shCall[t].cmd].res = shCall[t].run]_vars

(***************************************************************************)
(* Callback dispatcher: App.register (keenetic-tg-bot/modules/app.py).     *)
(* telebot runs the handlers on worker threads (threaded=True).  A chat is *)
(* the private chat of a user and holds one message with buttons.          *)
(***************************************************************************)
Users == {101, 202}
CbThreads == {"t1", "t2"}
Components == {"o"}
\* callback data, split at "|"
Datas == {<<"noop">>, <<"h", "m">>, <<"o", "m">>, <<"zz", "m">>}
Calls == [user : Users, data : Datas]
NoCbCall == [user |-> 0, data |-> <<"noop">>]

\* call.message.chat.id and call.message.message_id of a callback of user u
ChatOf(u) == u
MsgOf(u) == u + 1

InitCb ==
    /\ admins \in SUBSET Users
    /\ pending_input = [c \in Users |-> "none"]
    /\ session = [c \in Users |-> 0]
    /\ last_chat_id = 0
    /\ last_message_id = 0
    /\ last_user_id = 0
    /\ cbPc = [t \in CbThreads |-> "idle"]
    /\ cbCall = [t \in CbThreads |-> NoCbCall]
    /\ cbScreen = [t \in CbThreads |-> "none"]
    /\ rendered = {}
    /\ outMsgs = {}
    /\ toasted = {}
    /\ noopAcked = FALSE
    /\ cbRaised = [t \in CbThreads |-> FALSE]
    /\ lastShown = "none"

\* an access check that lets everyone in
IsAdminAnyone(user_id) == TRUE

\* App.is_admin
IsAdmin(user_id) == IF admins = {} THEN TRUE ELSE user_id \in admins

\* parse_cb: the module part of the callback data
ParseMod(data) == data[1]

\* a dispatcher without the noop short-circuit
IsNoopNever(data) == FALSE

\* _cb: call.data == "noop"
IsNoop(data) == data = <<"noop">>

\* _cb up to the dispatch: the empty answer, the noop test, the access check
\* with its alert, the last_* context, the home and not-found screens
CbBegin(t, call) ==
    /\ cbPc[t] = "idle"
    /\ \E answered \in BOOLEAN :
           noopAcked' = (noopAcked \/ (answered /\ call.data = <<"noop">>))
    /\ IF IsNoop(call.data)
       THEN UNCHANGED <<admins, pending_input, session, last_chat_id,
                        last_message_id, last_user_id, cbPc, cbCall, cbScreen,
                        rendered, outMsgs, toasted, cbRaised, lastShown>>
       ELSE IF ~IsAdmin(call.user)
       THEN /\ \E shown \in BOOLEAN :
                  toasted' = IF shown THEN toasted \cup {call.user} ELSE toasted
            /\ UNCHANGED <<admins, pending_input, session, last_chat_id,
                           last_message_id, last_user_id, cbPc, cbCall,
                           cbScreen, rendered, outMsgs, cbRaised, lastShown>>
       ELSE /\ last_chat_id' = ChatOf(call.user)
            /\ last_message_id' = MsgOf(call.user)
            /\ last_user_id' = call.user
            /\ cbCall' = [cbCall EXCEPT ![t] = call]
            /\ cbRaised' = [cbRaised EXCEPT ![t] = FALSE]
            /\ cbPc' = [cbPc EXCEPT ![t] =
                  IF ParseMod(call.data) \in Components THEN "render" ELSE "edit"]
            /\ cbScreen' = [cbScreen EXCEPT ![t] =
                  IF ParseMod(call.data) = "h" THEN "home"
                  ELSE IF ParseMod(call.data) \in Components THEN "none"
                  ELSE "not_found"]
            /\ UNCHANGED <<admins, pending_input, session, rendered, outMsgs,
                           toasted, lastShown>>
    /\ UNCHANGED notCbVars

\* a dispatcher that lets the exception of a render out of the handler
AfterRenderUncaught(raised) ==
    IF raised THEN [pc |-> "escaped", screen |-> "none"]
    ELSE [pc |-> "edit", screen |-> "component"]

\* _cb: `try: screen = comp.render(...)`, `except Exception: screen =
\* Screen(text=err.try_again, ...)`; the handler goes on to edit_or_send
AfterRender(raised) ==
    [pc |-> "edit", screen |-> IF raised THEN "try_again" ELSE "component"]

\* _cb: comp.render(self, cmd, params) inside try / except; a render may
\* call app.session_set and app.set_pending_input(app.last_chat_id, ...),
\* or raise
CbRender(t) ==
    /\ cbPc[t] = "render"
    /\ rendered' = rendered \cup {cbCall[t].user}
    /\ \E does \in {"show", "session", "prompt", "raise"} :
           /\ session' = IF does \in {"session", "prompt"}
                         THEN [session EXCEPT ![last_chat_id] = cbCall[t].user]
                         ELSE session
           /\ pending_input' = IF does = "prompt"
                               THEN [pending_input EXCEPT ![last_chat_id] = "opkg_search"]
                               ELSE pending_input
           /\ cbRaised' = [cbRaised EXCEPT ![t] = does = "raise"]
           /\ cbPc' = [cbPc EXCEPT ![t] = AfterRender(does = "raise").pc]
           /\ cbScreen' = [cbScreen EXCEPT ![t] = AfterRender(does = "raise").screen]
    /\ UNCHANGED <<admins, last_chat_id, last_message_id, last_user_id, cbCall,
                   outMsgs, toasted, noopAcked, lastShown>>
    /\ UNCHANGED notCbVars

\* _cb: self.edit_or_send(call.message.chat.id, call.message.message_id,
\* screen): the edit, else the send of send_screen, else the error is logged
CbEdit(t) ==
    /\ cbPc[t] = "edit"
    /\ cbPc' = [cbPc EXCEPT ![t] = "idle"]
    /\ outMsgs' = outMsgs \cup {cbCall[t].user}
    /\ \E delivered \in BOOLEAN :
           lastShown' = IF delivered THEN cbScreen[t] ELSE lastShown
    /\ cbCall' = [cbCall EXCEPT ![t] = NoCbCall]
    /\ cbScreen' = [cbScreen EXCEPT ![t] = "none"]
    /\ cbRaised' = [cbRaised EXCEPT ![t] = FALSE]
    /\ UNCHANGED <<admins, pending_input, session, last_chat_id,
                   last_message_id, last_user_id, rendered, toasted, noopAcked>>
    /\ UNCHANGED notCbVars

\* _text: the access check, pop_pending_input, the opkg search render
OnText(user) ==
    /\ IsAdmin(user)
    /\ pending_input' = [pending_input EXCEPT ![ChatOf(user)] = "none"]
    /\ IF pending_input[ChatOf(user)] = "opkg_search"
       THEN /\ last_chat_id' = ChatOf(user)
            /\ last_message_id' = 0
            /\ rendered' = rendered \cup {user}
       ELSE UNCHANGED <<last_chat_id, last_message_id, rendered>>
    /\ outMsgs' = outMsgs \cup {user}
    /\ UNCHANGED <<admins, session, last_user_id, cbPc, cbCall, cbScreen,
                   toasted, noopAcked, cbRaised, lastShown>>
    /\ UNCHANGED notCbVars

NextCb ==
    \/ \E t \in CbThreads, call \in Calls : CbBegin(t, call)
    \/ \E t \in CbThreads : CbRender(t)
    \/ \E t \in CbThreads : CbEdit(t)
    \/ \E user \in Users : OnText(user)

\* the actor is refused: cfg.admins names somebody, and not the actor
Refused(user) == admins # {} /\ user \notin admins

\* what a callback of a refused actor may not touch
CbContext == <<pending_input, session, last_chat_id, last_message_id,
               last_user_id, rendered, outMsgs, cbPc, cbCall, cbScreen>>

NoopContext == <<admins, pending_input, session, last_chat_id, last_message_id,
                 last_user_id, cbPc, cbCall, cbScreen, rendered, outMsgs,
                 toasted, cbRaised, lastShown>>

\* C12: handling a callback whose data is "noop" changes nothing but the
\* acknowledgement of that callback: no render, no edit or send, no alert,
\* the same pending input, session and last_* context.
C12_NoopOnlyAcknowledges ==
    [][\A t \in CbThreads, call \in Calls :
          (call.data = <<"noop">> /\ CbBegin(t, call)) => UNCHANGED NoopContext]_vars

C12_Witness == noopAcked /\ rendered = {} /\ outMsgs = {} /\ last_chat_id = 0

\* C22: a text message from a chat that has no pending input sends no
\* message, runs no render and leaves the pending input and the session as
\* they were
C22_TextWithoutPendingIsIgnored ==
    [][\A user \in Users :
          (pending_input[ChatOf(user)] = "none" /\ OnText(user)) =>
              UNCHANGED <<outMsgs, rendered, pending_input, session>>]_vars

\* C13: the session of a chat holds only what the handling of a callback of
\* that chat has stored.
C13_SessionWrittenByOwnChat ==
    \A c \in Users : session[c] \in {0, c}


(***************************************************************************)
(* Delivery of a notification to the admins: Monitor._notify_admins of     *)
(* modules/monitor.py and of bot.py, App.notify_admins of                  *)
(* keenetic-tg-bot/modules/app.py.  One send_message call is one step.     *)
(***************************************************************************)
NotifyGens == {"monitor", "app", "bot"}

\* cfg.admins, in the order of the list
NotifyAdmins == <<101, 202, 303>>

NoTries == [a \in 1..Len(NotifyAdmins) |-> 0]

InitNotify ==
    /\ nGen \in NotifyGens
    /\ nIdx = 0
    /\ nAttempt = 0
    /\ nTries = NoTries
    /\ nGot = {}
    /\ nFirstFailed = {}
    /\ nNotes = 0

\* send_message calls made for one admin before the failure is dropped:
\* `for attempt in range(2)` in modules/monitor.py, one try in the others
SendAttempts(gen) == IF gen = "monitor" THEN 2 ELSE 1

\* a check fires a notification: _notify_admins(text) is entered
NotifyBegin ==
    /\ nIdx = 0
    /\ nNotes < MaxNotes
    /\ nNotes' = nNotes + 1
    /\ nIdx' = 1
    /\ nAttempt' = 0
    /\ nTries' = NoTries
    /\ nGot' = {}
    /\ nFirstFailed' = {}
    /\ UNCHANGED nGen
    /\ UNCHANGED notNotifyVars

\* one self.bot.send_message(uid, ...) inside its try: it returns (break /
\* next admin) or raises (sleep and retry while attempts are left, else the
\* failure is logged or ignored and the next admin follows)
NotifySend ==
    /\ nIdx \in 1..Len(NotifyAdmins)
    /\ nTries' = [nTries EXCEPT ![nIdx] = @ + 1]
    /\ \E ok \in BOOLEAN :
        IF ok
        THEN /\ nGot' = nGot \cup {nIdx}
             /\ nIdx' = nIdx + 1
             /\ nAttempt' = 0
             /\ UNCHANGED nFirstFailed
        ELSE /\ nFirstFailed' = IF nAttempt = 0 THEN nFirstFailed \cup {nIdx}
                                ELSE nFirstFailed
             /\ IF nAttempt + 1 < SendAttempts(nGen)
                THEN nAttempt' = nAttempt + 1 /\ nIdx' = nIdx
                ELSE nAttempt' = 0 /\ nIdx' = nIdx + 1
             /\ UNCHANGED nGot
    /\ UNCHANGED <<nGen, nNotes>>
    /\ UNCHANGED notNotifyVars

\* the loop over cfg.admins is exhausted: _notify_admins returns to the check
NotifyEnd ==
    /\ nIdx = Len(NotifyAdmins) + 1
    /\ nIdx' = 0
    /\ UNCHANGED <<nGen, nAttempt, nTries, nGot, nFirstFailed, nNotes>>
    /\ UNCHANGED notNotifyVars

NextNotify == NotifyBegin \/ NotifySend \/ NotifyEnd

\* the admins the delivery loop is through with
Served == {a \in 1..Len(NotifyAdmins) : nNotes > 0 /\ (nIdx = 0 \/ a < nIdx)}

\* C17: for each fired notification and each admin, a failed send is retried
\* exactly once (two attempts), no admin gets more than two attempts, and every
\* admin is served whatever happened to the ones before
C17_FailedSendRetriedOnce ==
    \A a \in Served :
        /\ nTries[a] \in 1..2
        /\ a \in nFirstFailed => nTries[a] = 2

(***************************************************************************)
(* Log tail: Monitor._tail_new_errors of modules/monitor.py for one        *)
(* watched path.  The file is written, truncated, removed and created by   *)
(* the services that own it.                                               *)
(***************************************************************************)
\* the stretch before the end of the file a first tail starts at
TailBack == 8192
\* the most one tail reads
ReadMax == 65536

\* file sizes explored: around the two constants and their sum
Sizes == {0, 1, TailBack, TailBack + 1, ReadMax, ReadMax + TailBack + 1}

NoTail == [seen |-> FALSE, size |-> 0, stored |-> {}, pos |-> 0, len |-> 0,
           raised |-> FALSE, hits |-> FALSE]

InitTail ==
    /\ fExists \in BOOLEAN
    /\ fSize \in Sizes
    /\ ~fExists => fSize = 0
    /\ logPos = {}
    /\ fCut = FALSE
    /\ tail = NoTail

\* max(0, x)
Max0(x) == IF x > 0 THEN x ELSE 0

\* self._last_log_pos.get(path, max(0, size - 8192))
StartPos(stored, size) ==
    IF stored = {} THEN Max0(size - TailBack) ELSE CHOOSE q \in stored : TRUE

\* a tail that trusts the stored offset
ReadPosStale(stored, size) == StartPos(stored, size)

\* if pos > size: pos = max(0, size - 8192)
ReadPos(stored, size) ==
    IF StartPos(stored, size) > size
    THEN Max0(size - TailBack)
    ELSE StartPos(stored, size)

\* read_len = min(65536, size - pos)
ReadLen(pos, size) == IF size - pos < ReadMax THEN size - pos ELSE ReadMax

\* _tail_new_errors(path, pattern) on an existing path
TailExisting ==
    /\ fExists
    /\ LET size == fSize
           pos == ReadPos(logPos, size)
       IN IF size = pos
          THEN \* if size == pos: return None
               /\ tail' = [seen |-> TRUE, size |-> size, stored |-> logPos,
                           pos |-> pos, len |-> 0, raised |-> FALSE,
                           hits |-> FALSE]
               /\ UNCHANGED <<logPos, fCut>>
          ELSE \E does \in {"raise", "hits", "clean"} :
               IF does = "raise"
               THEN \* open, seek or read raised: except Exception: return None
                    /\ tail' = [seen |-> TRUE, size |-> size, stored |-> logPos,
                                pos |-> pos, len |-> 0, raised |-> TRUE,
                                hits |-> FALSE]
                    /\ UNCHANGED <<logPos, fCut>>
               ELSE /\ tail' = [seen |-> TRUE, size |-> size, stored |-> logPos,
                                pos |-> pos, len |-> ReadLen(pos, size),
                                raised |-> FALSE, hits |-> does = "hits"]
                    /\ logPos' = {size}
                    /\ fCut' = FALSE
    /\ UNCHANGED <<fExists, fSize>>
    /\ UNCHANGED notTailVars

\* _tail_new_errors(path, pattern): if not path.exists(): return None
TailMissing ==
    /\ ~fExists
    /\ tail' = NoTail
    /\ UNCHANGED <<fExists, fSize, logPos, fCut>>
    /\ UNCHANGED notTailVars

\* the owner of the log appends to it
FileAppend ==
    /\ fExists
    /\ \E n \in Sizes : n > fSize /\ fSize' = n
    /\ UNCHANGED <<fExists, logPos, fCut, tail>>
    /\ UNCHANGED notTailVars

\* the log is truncated, or rotated and started again
FileTruncate ==
    /\ fExists
    /\ \E n \in Sizes : n < fSize /\ fSize' = n
    /\ fCut' = TRUE
    /\ UNCHANGED <<fExists, logPos, tail>>
    /\ UNCHANGED notTailVars

\* the log is removed, or created empty
FileToggle ==
    /\ fExists' = ~fExists
    /\ fSize' = 0
    /\ fCut' = TRUE
    /\ UNCHANGED <<logPos, tail>>
    /\ UNCHANGED notTailVars

NextTail == TailExisting \/ TailMissing \/ FileAppend \/ FileTruncate \/ FileToggle

\* C18: after each tail of an existing watched log the stored offset is the
\* size sampled by that tail
C18_OffsetIsSizeSampled ==
    tail.seen => logPos = {tail.size}

\* C19: the read position of a tail lies in [0, size], at most ReadMax bytes
\* are read and none past the end; a stored offset beyond the size gives the
\* read position max(0, size - TailBack)
C19_ReadWindowWithinFile ==
    tail.seen =>
        /\ tail.pos \in 0..tail.size
        /\ tail.len \in 0..ReadMax
        /\ tail.pos + tail.len <= tail.size
        /\ \A q \in tail.stored :
              q > tail.size => tail.pos = Max0(tail.size - TailBack)

\* a tail after a truncation that reads a non-empty stretch from inside the file
C19_Witness ==
    /\ tail.seen
    /\ \E q \in tail.stored : q > tail.size
    /\ tail.pos > 0
    /\ tail.len > 0

\* a tail that read the file is made in this step
TailRead == tail' # tail /\ tail'.seen /\ ~tail'.raised

\* C39: while the file is only appended to, a tail that finds a stored
\* offset reads from that offset up to the size it sampled: every byte
\* appended since the offset was stored is scanned by this tail, none is
\* skipped and none is read again, however many bytes were appended.
C39_AppendedBytesScannedOnce ==
    [][(TailRead /\ ~fCut /\ logPos # {}) =>
          /\ tail'.stored = logPos
          /\ \A q \in logPos :
                /\ tail'.pos = q
                /\ tail'.pos + tail'.len = tail'.size]_vars

(***************************************************************************)
(* Callback tokens: parse_cb of keenetic-tg-bot/modules/app.py and the     *)
(* token format "mod|cmd|k=v&k2=v2" the buttons are built with.  A string  *)
(* is a sequence of characters.                                            *)
(***************************************************************************)
\* longest callback_data explored character by character
MaxTok == 6
\* longest module, cmd, key and value of an encoded token
MaxWord == 1

Strs(alphabet, n) == UNION {[1..k -> alphabet] : k \in 0..n}

Noop == <<"n", "o", "o", "p">>
CmdM == <<"m">>
EmptyMap == [k \in {} |-> <<>>]

\* "r|m|" and "aw|tun_act|id=wg0&a=start"
ExampleBare == <<"r", "|", "m", "|">>
ExampleAction ==
    <<"a", "w", "|", "t", "u", "n", "_", "a", "c", "t", "|", "i", "d", "=",
      "w", "g", "0", "&", "a", "=", "s", "t", "a", "r", "t">>

RawInputs ==
    Strs({"a", "|", "=", "&"}, MaxTok) \cup {Noop, ExampleBare, ExampleAction}

\* the triples a token is built from: module and cmd without '|', values
\* without '=' and '&', at most two params
Modules == Strs({"a"}, MaxWord)
CmdNames == Strs({"a", "="}, MaxWord)
ParamKeys == Strs({"a", "=", "&"}, MaxWord)
ParamVals == Strs({"a", "|"}, MaxWord)
ParamMaps ==
    UNION {[d -> ParamVals] : d \in {e \in SUBSET ParamKeys : Cardinality(e) <= 2}}
Triples == [mod : Modules, cmd : CmdNames, params : ParamMaps]

NoTriple == [mod |-> <<>>, cmd |-> <<>>, params |-> EmptyMap]

InitTok ==
    /\ tokOut = NoTriple
    /\ \/ tokStage = "raw" /\ tokIn \in RawInputs /\ tokSrc = NoTriple
       \/ tokStage = "triple" /\ tokIn = <<>> /\ tokSrc \in Triples

\* index of the first d in s, 0 when there is none
IndexOf(s, d) ==
    IF \E i \in 1..Len(s) : s[i] = d
    THEN CHOOSE i \in 1..Len(s) : s[i] = d /\ \A j \in 1..(i - 1) : s[j] # d
    ELSE 0

RECURSIVE Split(_, _, _)
\* s.split(d, maxsplit)
Split(s, d, maxsplit) ==
    IF maxsplit = 0 \/ IndexOf(s, d) = 0
    THEN <<s>>
    ELSE <<SubSeq(s, 1, IndexOf(s, d) - 1)>> \o
         Split(SubSeq(s, IndexOf(s, d) + 1, Len(s)), d, maxsplit - 1)

\* a split at every '|'
PartsOfAll(data) == Split(data, "|", Len(data))

\* parts = data.split("|", 2)
PartsOf(data) == Split(data, "|", 2)

\* a cmd taken as it stands
CmdOfAsIs(parts) == IF Len(parts) > 1 THEN parts[2] ELSE <<>>

\* cmd = parts[1] if len(parts) > 1 and parts[1] else "m"
CmdOf(parts) == IF Len(parts) > 1 /\ parts[2] # <<>> THEN parts[2] ELSE CmdM

\* k, v = seg.split("=", 1), or the whole seg and ""
KeyOf(seg) ==
    IF IndexOf(seg, "=") = 0 THEN seg ELSE SubSeq(seg, 1, IndexOf(seg, "=") - 1)
ValOf(seg) ==
    IF IndexOf(seg, "=") = 0 THEN <<>>
    ELSE SubSeq(seg, IndexOf(seg, "=") + 1, Len(seg))

\* params[k] = v
Put(f, k, v) == [x \in DOMAIN f \cup {k} |-> IF x = k THEN v ELSE f[x]]

RECURSIVE AddSegs(_, _)
\* for seg in qs.split("&"): if not seg: continue; ...
AddSegs(params, segs) ==
    IF segs = <<>> THEN params
    ELSE IF Head(segs) = <<>> THEN AddSegs(params, Tail(segs))
    ELSE AddSegs(Put(params, KeyOf(Head(segs)), ValOf(Head(segs))), Tail(segs))

\* qs = parts[2] if len(parts) > 2 else ""
QsOf(parts) == IF Len(parts) > 2 THEN parts[3] ELSE <<>>

\* parse_cb(data)
ParseCb(data) ==
    IF data = <<>> THEN [mod |-> <<>>, cmd |-> <<>>, params |-> EmptyMap]
    ELSE IF data = Noop THEN [mod |-> Noop, cmd |-> Noop, params |-> EmptyMap]
    ELSE [mod |-> PartsOf(data)[1],
          cmd |-> CmdOf(PartsOf(data)),
          params |-> IF QsOf(PartsOf(data)) # <<>>
                     THEN AddSegs(EmptyMap,
                                  Split(QsOf(PartsOf(data)), "&",
                                        Len(QsOf(PartsOf(data)))))
                     ELSE EmptyMap]

RECURSIVE JoinPairs(_, _)
\* "k1=v1&k2=v2" of the pairs of a map, key by key
JoinPairs(params, keys) ==
    IF keys = {} THEN <<>>
    ELSE LET k == CHOOSE x \in keys : TRUE
         IN k \o <<"=">> \o params[k] \o
            (IF keys = {k} THEN <<>> ELSE <<"&">> \o JoinPairs(params, keys \ {k}))

\* the token of a button: f"{mod}|{cmd}" or f"{mod}|{cmd}|{k}={v}&..."
Encode(tr) ==
    tr.mod \o <<"|">> \o tr.cmd \o
    (IF DOMAIN tr.params = {} THEN <<>>
     ELSE <<"|">> \o JoinPairs(tr.params, DOMAIN tr.params))

\* a component builds the callback_data of a button
TokEncode ==
    /\ tokStage = "triple"
    /\ tokStage' = "raw"
    /\ tokIn' = Encode(tokSrc)
    /\ UNCHANGED <<tokSrc, tokOut>>
    /\ UNCHANGED notTokVars

\* _cb: mod, cmd, params = parse_cb(call.data)
TokParse ==
    /\ tokStage = "raw"
    /\ tokStage' = "done"
    /\ tokOut' = ParseCb(tokIn)
    /\ UNCHANGED <<tokSrc, tokIn>>
    /\ UNCHANGED notTokVars

NextTok == TokEncode \/ TokParse

\* the segments of the params part of a token
SegsOf(data) == Split(QsOf(PartsOf(data)), "&", Len(QsOf(PartsOf(data))))

\* what the claim says of every token: cmd "m" for a missing or empty cmd
\* segment, no params for a missing params segment, a pair without '=' is a
\* key, with the empty value unless a later pair sets the key again
AsDocumented(data, out) ==
    /\ out.mod = PartsOf(data)[1]
    /\ (Len(PartsOf(data)) < 2 \/ PartsOf(data)[2] = <<>>) => out.cmd = CmdM
    /\ (Len(PartsOf(data)) >= 2 /\ PartsOf(data)[2] # <<>>)
            => out.cmd = PartsOf(data)[2]
    /\ Len(PartsOf(data)) < 3 => out.params = EmptyMap
    /\ \A i \in 1..Len(SegsOf(data)) :
          (SegsOf(data)[i] # <<>> /\ IndexOf(SegsOf(data)[i], "=") = 0) =>
              /\ SegsOf(data)[i] \in DOMAIN out.params
              /\ (\A j \in (i + 1)..Len(SegsOf(data)) :
                        SegsOf(data)[j] = <<>>
                        \/ KeyOf(SegsOf(data)[j]) # SegsOf(data)[i])
                    => out.params[SegsOf(data)[i]] = <<>>

ExamplesDecoded ==
    /\ tokIn = ExampleBare =>
          tokOut = [mod |-> <<"r">>, cmd |-> CmdM, params |-> EmptyMap]
    /\ tokIn = ExampleAction =>
          tokOut = [mod |-> <<"a", "w">>,
                    cmd |-> <<"t", "u", "n", "_", "a", "c", "t">>,
                    params |-> [k \in {<<"i", "d">>, <<"a">>} |->
                                  IF k = <<"a">>
                                  THEN <<"s", "t", "a", "r", "t">>
                                  ELSE <<"w", "g", "0">>]]

HasChar(str, c) == \E i \in 1..Len(str) : str[i] = c

\* C25 as claimed: the token of a module and a cmd without '|' and of a param
\* map without '=' and '&' in its values decodes to that module, cmd and map
C25_RoundTrip ==
    (tokStage = "done" /\ tokIn = Encode(tokSrc)) => tokOut = tokSrc

\* C25 as amended: it does when, besides, the cmd is not empty and no key
\* holds '=' or '&'
C25_RoundTripOfPlainKeys ==
    (/\ tokStage = "done"
     /\ tokIn = Encode(tokSrc)
     /\ tokSrc.cmd # <<>>
     /\ \A k \in DOMAIN tokSrc.params : ~HasChar(k, "=") /\ ~HasChar(k, "&"))
        => tokOut = tokSrc

\* a cmd holding '=' and a value holding '|' came back as they were
C25_Witness ==
    /\ tokStage = "done"
    /\ tokIn = Encode(tokSrc)
    /\ tokOut = tokSrc
    /\ HasChar(tokSrc.cmd, "=")
    /\ \E k \in DOMAIN tokSrc.params : HasChar(tokSrc.params[k], "|")

(***************************************************************************)
(* Outcome of one command: Shell.run of keenetic-tg-bot/modules/utils/     *)
(* shell.py ("new") and of keenetic_tg_bot/shell.py ("pkg"), from the call *)
(* of subprocess.run to the return.                                        *)
(***************************************************************************)
\* calls of Shell.run made one after another
MaxRuns == 3

\* rc = 124 of the TimeoutExpired handlers
RcTimeout == 124
\* rc = 127: `except Exception` (new), `except FileNotFoundError` (pkg)
RcNoLaunch == 127
\* `return 1, ...` of the last handler of the pkg Shell.run
RcOther == 1

RunGens == {"new", "pkg"}

\* how subprocess.run(..., text=True, timeout=to) ends: the child exits with
\* a return code; the timeout expires, e.stdout being None (nothing captured)
\* or the bytes captured so far; the child cannot be started
How(k, r, d) == [kind |-> k, rc |-> r, detail |-> d]
Hows ==
    {How("exit", r, "") : r \in {0, 1, 2, RcTimeout, RcNoLaunch}}
        \cup {How("timeout", 0, d) : d \in {"None", "bytes"}}
        \cup {How("error", 0, d) :
                d \in {"FileNotFoundError", "PermissionError", "OSError",
                       "ValueError"}}

RunReturned(h, r) == [how |-> h, ret |-> "result", rc |-> r, exc |-> ""]
RunRaised(h, e) == [how |-> h, ret |-> "raised", rc |-> 0, exc |-> e]
NoRun == [how |-> How("", 0, ""), ret |-> "", rc |-> 0, exc |-> ""]

\* ANSI_RE.sub("", s or ""): a str pattern applied to bytes raises TypeError
StripAnsiRaises(stdout) == stdout = "bytes"

\* keenetic-tg-bot: try / except TimeoutExpired / except Exception, then the
\* ShellResult is built and returned
RunNew(h) ==
    CASE h.kind = "exit" -> RunReturned(h, h.rc)
      [] h.kind = "timeout" -> RunReturned(h, RcTimeout)
      [] OTHER -> RunReturned(h, RcNoLaunch)

\* keenetic_tg_bot: every branch returns a (rc, out) pair; the TimeoutExpired
\* handler runs strip_ansi on e.stdout when it is truthy
RunPkg(h) ==
    CASE h.kind = "exit" -> RunReturned(h, h.rc)
      [] h.kind = "timeout" ->
            IF h.detail # "None" /\ StripAnsiRaises(h.detail)
            THEN RunRaised(h, "TypeError")
            ELSE RunReturned(h, RcTimeout)
      [] h.detail = "FileNotFoundError" -> RunReturned(h, RcNoLaunch)
      [] OTHER -> RunReturned(h, RcOther)

InitRun ==
    /\ runPc = "idle"
    /\ runGen \in RunGens
    /\ runLast = NoRun
    /\ runCalls = 0

\* Shell.run is entered and reaches subprocess.run
RunBegin ==
    /\ runPc \in {"idle", "done"}
    /\ runCalls < MaxRuns
    /\ runPc' = "run"
    /\ runCalls' = runCalls + 1
    /\ UNCHANGED <<runGen, runLast>>
    /\ UNCHANGED notRunVars

\* subprocess.run ends as h; the handlers run and Shell.run returns or raises
RunEnd(h) ==
    /\ runPc = "run"
    /\ runPc' = "done"
    /\ runLast' = IF runGen = "new" THEN RunNew(h) ELSE RunPkg(h)
    /\ UNCHANGED <<runGen, runCalls>>
    /\ UNCHANGED notRunVars

NextRun ==
    \/ RunBegin
    \/ \E h \in Hows : RunEnd(h)

\* C26: Shell.run never raises: every call ends with a returned result, whose
\* status is 124 when the command exceeded its timeout and is non-zero when
\* the command could not be launched.
C26_RunNeverRaises ==
    runPc = "done" =>
        /\ runLast.ret = "result"
        /\ (runLast.how.kind = "timeout" => runLast.rc = RcTimeout)
        /\ (runLast.how.kind = "error" => runLast.rc # 0)

(***************************************************************************)
(* Start-up and the poll loop: App.run of modules/app.py ("old") and       *)
(* App.start of keenetic-tg-bot/modules/app.py ("new").                    *)
(***************************************************************************)
\* calls of infinity_polling followed
MaxPolls == 7

\* min(backoff * 2, 60), min(60, backoff * 2)
BackoffCap == 60
\* (now - last_notify) >= 3600
AlertGap == 3600
\* err_streak >= 3
AlertStreak == 3

AppGens == {"old", "new"}

\* `backoff = 5` of App.run, `backoff = 2` of App.start
InitialBackoff(gen) == IF gen = "old" THEN 5 ELSE 2

Min(a, b) == IF a < b THEN a ELSE b

NextBackoffUncapped(b) == b * 2
\* backoff = min(backoff * 2, 60)
NextBackoff(b) == Min(b * 2, BackoffCap)

ShouldAlertAnyStreak(streak, t, last) == t - last >= AlertGap
\* if err_streak >= 3 and (now - last_notify) >= 3600
ShouldAlert(streak, t, last) == streak >= AlertStreak /\ t - last >= AlertGap

\* what the lock acquisition does: returns True, returns False, raises
\* (os.makedirs of acquire_lock stands outside its try)
LockResults == {"ok", "failed", "raised"}

AfterLockAlways(r) == "monitor"
\* if not self._acquire_instance_lock(): return
AfterLock(r) ==
    CASE r = "ok" -> "monitor"
      [] r = "failed" -> "exited"
      [] OTHER -> "raised"

\* time.time() when the process starts: a clock not set yet, a set clock
StartTimes == {0, AlertGap}

\* how long a call of infinity_polling lasts before it returns or raises
PollDurations == {0, AlertGap - BackoffCap, AlertGap}

InitApp ==
    /\ appGen \in AppGens
    /\ appPc = "start"
    /\ appLock = "none"
    /\ monitorStarted = FALSE
    /\ polls = 0
    /\ backoff = 0
    /\ err_streak = 0
    /\ last_notify = 0
    /\ appNow \in StartTimes
    /\ sleeps = <<>>
    /\ pollFails = 0
    /\ alerts = <<>>

\* the lock acquisition ends as r
AppLock(r) ==
    /\ appPc = "start"
    /\ appLock' = r
    /\ appPc' = AfterLock(r)
    /\ UNCHANGED <<appGen, monitorStarted, polls, backoff, err_streak, last_notify,
                   appNow, sleeps, pollFails, alerts>>
    /\ UNCHANGED notAppVars

\* from the lock to the loop: the monitor is started (App.run catches what
\* monitor.start raises, App.start lets it out), App.run greets the admins,
\* the loop variables are set
AppStartMonitor(raises) ==
    /\ appPc = "monitor"
    /\ monitorStarted' = TRUE
    /\ appPc' = IF raises /\ appGen = "new" THEN "raised" ELSE "poll"
    /\ backoff' = IF raises /\ appGen = "new" THEN backoff ELSE InitialBackoff(appGen)
    /\ UNCHANGED <<appGen, appLock, polls, err_streak, last_notify, appNow, sleeps,
                   pollFails, alerts>>
    /\ UNCHANGED notAppVars

\* while True: try: self.bot.infinity_polling(...)
PollBegin ==
    /\ appPc = "poll"
    /\ polls < MaxPolls
    /\ polls' = polls + 1
    /\ appPc' = "polling"
    /\ UNCHANGED <<appGen, appLock, monitorStarted, backoff, err_streak, last_notify,
                   appNow, sleeps, pollFails, alerts>>
    /\ UNCHANGED notAppVars

\* infinity_polling returns after d seconds: App.run resets backoff and
\* err_streak, App.start goes round
PollReturns(d) ==
    /\ appPc = "polling"
    /\ appNow' = appNow + d
    /\ backoff' = IF appGen = "old" THEN InitialBackoff(appGen) ELSE backoff
    /\ err_streak' = 0
    /\ sleeps' = <<>>
    /\ appPc' = "poll"
    /\ UNCHANGED <<appGen, appLock, monitorStarted, polls, last_notify, pollFails,
                   alerts>>
    /\ UNCHANGED notAppVars

\* infinity_polling raises after d seconds: the handler counts (App.run),
\* alerts the admins when due (App.run), sleeps backoff seconds, doubles
PollRaises(d) ==
    /\ appPc = "polling"
    /\ LET t == appNow + d
           streak == IF appGen = "old" THEN err_streak + 1 ELSE err_streak
           alert == appGen = "old" /\ ShouldAlert(streak, t, last_notify)
       IN  /\ err_streak' = streak
           /\ last_notify' = IF alert THEN t ELSE last_notify
           /\ alerts' = IF alert
                        THEN Append(alerts, [at |-> t, streak |-> Len(sleeps) + 1])
                        ELSE alerts
           /\ appNow' = t + backoff
    /\ sleeps' = Append(sleeps, backoff)
    /\ backoff' = NextBackoff(backoff)
    /\ pollFails' = pollFails + 1
    /\ appPc' = "poll"
    /\ UNCHANGED <<appGen, appLock, monitorStarted, polls>>
    /\ UNCHANGED notAppVars

NextApp ==
    \/ \E r \in LockResults : AppLock(r)
    \/ \E raises \in BOOLEAN : AppStartMonitor(raises)
    \/ PollBegin
    \/ \E d \in PollDurations : PollReturns(d)
    \/ \E d \in PollDurations : PollRaises(d)

InLoop == appPc \in {"poll", "polling"}

\* C27: the delay slept after a polling failure never exceeds 60 seconds; the
\* first failure (in App.run: the first of every run of failures) sleeps the
\* initial value and a failure that follows a failure sleeps twice the delay
\* slept before, capped at 60; a polling exception never takes the thread out
\* of the loop.
C27_BackoffDoublesCapped ==
    /\ [](/\ \A i \in 1..Len(sleeps) : sleeps[i] <= BackoffCap
          /\ \A i \in 2..Len(sleeps) :
                sleeps[i] = Min(2 * sleeps[i - 1], BackoffCap)
          /\ ((sleeps # <<>> /\ (pollFails = 1 \/ appGen = "old")) =>
                sleeps[1] = InitialBackoff(appGen)))
    /\ [][InLoop => InLoop']_vars

C27_Witness ==
    /\ InLoop
    /\ \E i \in 2..Len(sleeps) :
          sleeps[i] = BackoffCap /\ 2 * sleeps[i - 1] > BackoffCap

\* C28: any two polling alerts are at least 3600 seconds apart, and an alert
\* is sent only at a failure that is at least the third in a row since
\* polling last returned normally.
C28_AlertsThrottled ==
    /\ \A i \in 1..Len(alerts) : alerts[i].streak >= AlertStreak
    /\ \A i \in 1..Len(alerts) : \A j \in 1..Len(alerts) :
          i < j => alerts[j].at - alerts[i].at >= AlertGap

C28_Witness ==
    /\ Len(alerts) >= 2
    /\ alerts[2].at - alerts[1].at = AlertGap

\* C30: the monitor and polling are started only after the lock acquisition
\* returned success; once it failed, neither is ever started.
C30_StartedOnlyUnderLock ==
    /\ ((monitorStarted \/ polls > 0) => appLock = "ok")
    /\ (appLock = "failed" => ~monitorStarted /\ polls = 0 /\ appPc = "exited")
    /\ (appLock = "raised" => ~monitorStarted /\ polls = 0 /\ appPc = "raised")

C30_Witness == appLock = "ok" /\ monitorStarted /\ polls > 0

(***************************************************************************)
(* The simulation: main of tests/simulate.py builds the App over the stub  *)
(* transport, constructs the drivers and the components, assigns           *)
(* app.components and renders four screens.                                *)
(***************************************************************************)
\* the statements of main from `app = App(cfg, ...)` on: constructor calls
\* (the components in the order of the dict display), the assignment of
\* app.components, the four renders
Script ==
    <<"App", "RouterDriver", "OpkgDriver", "HydraRouteDriver", "NfqwsDriver",
      "AwgDriver", "SpeedTestDriver",
      "r", "o", "c", "hy", "nq", "aw", "sp", "st",
      "components",
      "home", "router menu", "settings", "opkg menu">>

ComponentIds == {"r", "o", "c", "hy", "nq", "aw", "sp", "st"}
ScreenNames == {"home", "router menu", "settings", "opkg menu"}
IsCtor(st) == st \notin ScreenNames \cup {"components"}

\* positional parameters of each __init__ besides self: required, accepted
Params(lo, hi) == [required |-> lo, accepted |-> hi]
CtorParams(st) ==
    CASE st = "App" -> Params(2, 2)
      [] st = "AwgDriver" -> Params(1, 5)
      [] st = "c" -> Params(5, 5)
      [] st = "hy" -> Params(2, 2)
      [] st = "sp" -> Params(3, 3)
      [] st = "st" -> Params(0, 0)
      [] OTHER -> Params(1, 1)

\* arguments main passes to each constructor
ArgsGiven(st) ==
    CASE st = "App" -> 2
      [] st = "c" -> 4
      [] st = "sp" -> 3
      [] st = "st" -> 0
      [] OTHER -> 1

\* a call binds its arguments, or raises TypeError
CallBinds(st) ==
    /\ ArgsGiven(st) >= CtorParams(st).required
    /\ ArgsGiven(st) <= CtorParams(st).accepted

\* I18N.t(key): the template of the language, else the English one, else the
\* key; a non-empty string in each case
T(lang, key) == <<lang, key>>

\* the text of each screen: header, blank line, second line
ScreenText(name, c) ==
    CASE name = "home" ->
            <<T(c.language, "home.header"), "\n\n", T(c.language, "home.subtitle")>>
      [] name = "router menu" ->
            <<T(c.language, "router.header"), "\n\n", T(c.language, "home.subtitle")>>
      [] name = "settings" ->
            <<T(c.language, "settings.header"), "\n\n",
              T(c.language, "settings.debug.tip")>>
      [] OTHER ->
            <<T(c.language, "opkg.header"), "\n\n", T(c.language, "home.subtitle")>>

\* the component a render is looked up in
ComponentOf(name) ==
    CASE name = "router menu" -> "r"
      [] name = "settings" -> "st"
      [] name = "opkg menu" -> "o"
      [] OTHER -> ""

SimCfgs ==
    [language : {"ru", "en", "de"}, debug : BOOLEAN, notify_enabled : BOOLEAN]

InitSim ==
    /\ simCfg \in SimCfgs
    /\ simPc = 0
    /\ simMade = {}
    /\ simComponents = {}
    /\ simScreens = <<>>
    /\ simExc = ""

\* the next statement of main
SimStep ==
    /\ simExc = ""
    /\ simPc < Len(Script)
    /\ LET st == Script[simPc + 1]
       IN  IF IsCtor(st)
           THEN /\ simExc' = IF CallBinds(st) THEN "" ELSE "TypeError"
                /\ simMade' = IF CallBinds(st) THEN simMade \cup {st} ELSE simMade
                /\ simPc' = IF CallBinds(st) THEN simPc + 1 ELSE simPc
                /\ UNCHANGED <<simComponents, simScreens>>
           ELSE IF st = "components"
           THEN /\ simComponents' = simMade \cap ComponentIds
                /\ simPc' = simPc + 1
                /\ UNCHANGED <<simMade, simScreens, simExc>>
           ELSE IF ComponentOf(st) \in simComponents \cup {""}
           THEN /\ simScreens' =
                      Append(simScreens, [name |-> st, text |-> ScreenText(st, simCfg)])
                /\ simPc' = simPc + 1
                /\ UNCHANGED <<simMade, simComponents, simExc>>
           ELSE /\ simExc' = "KeyError"
                /\ UNCHANGED <<simPc, simMade, simComponents, simScreens>>
    /\ UNCHANGED simCfg
    /\ UNCHANGED notSimVars

NextSim == SimStep

\* C29: over the stub transport main constructs the App, registers the
\* components and renders the home, router, settings and opkg menu screens:
\* nothing raises, and every screen rendered has a non-empty text.
C29_SimulationRenders ==
    /\ simExc = ""
    /\ \A i \in 1..Len(simScreens) : simScreens[i].text # <<>>

(***************************************************************************)
(* One edge-triggered check, evaluation by evaluation: _check_services     *)
(* (one service) and _check_internet of modules/monitor.py, and the        *)
(* service part of Monitor.tick of keenetic-tg-bot/modules/monitor.py (one *)
(* component).  Samples are "up" and "down".                               *)
(***************************************************************************)
\* evaluations followed
MaxEvals == 4
\* largest cooldown explored, in monitor intervals
MaxEdgeCooldown == 2

EdgeKinds == {"services", "internet", "tick"}
EdgeSamples == {"up", "down"}
\* f"svc:{k}" / f"svc_{comp_id}", "net:down", "net:up"
EdgeKeys == {"svc", "net:down", "net:up"}

EdgeCfgs == [notify_on_down : BOOLEAN, cooldown : 0..MaxEdgeCooldown]

\* skips: probes since the last evaluation that gave no sample
NoEval == [n |-> 0, sample |-> "unset", prev |-> "unset", fired |-> {}, skips |-> 0]

\* the result of _cooldown_ok and the timestamps after it
CooldownRes(ok, last) == [ok |-> ok, last |-> last]

\* a _cooldown_ok that records the time of every call
CooldownOkStampsAlways(last, key, cd) ==
    CooldownRes(eNow - last[key] >= cd, [last EXCEPT ![key] = eNow])

\* _cooldown_ok: if now - last >= min_iv: self._notify_last[key] = now;
\* return True
EdgeCooldownOk(last, key, cd) ==
    IF eNow - last[key] >= cd
    THEN CooldownRes(TRUE, [last EXCEPT ![key] = eNow])
    ELSE CooldownRes(FALSE, last)

\* a check without a baseline: the first sample is treated like any other
IsBaselineNever(prev) == FALSE

\* `if prev is None`
IsBaseline(prev) == prev = "unset"

\* truth value of a stored sample: None and False are false
Truthy(prev) == prev = "up"

\* one guard `cond and self._cooldown_ok(key)` followed by the notification:
\* the pair <<timestamps, keys notified>> after it
EdgeGuard(pr, cond, key, cd) ==
    IF cond
    THEN LET r == EdgeCooldownOk(pr[1], key, cd)
         IN  <<r.last, IF r.ok THEN pr[2] \cup {key} ELSE pr[2]>>
    ELSE pr

\* what follows `prev = stored; stored = sample` in each check
EdgeNotify(kind, prev, v, c, last) ==
    IF IsBaseline(prev) THEN <<last, {}>>
    ELSE IF kind = "services"
    THEN EdgeGuard(<<last, {}>>, Truthy(prev) /\ v = "down" /\ c.notify_on_down,
                   "svc", c.cooldown)
    ELSE IF kind = "internet"
    THEN LET p1 == EdgeGuard(<<last, {}>>,
                             Truthy(prev) /\ v = "down" /\ c.notify_on_down,
                             "net:down", c.cooldown)
         IN  EdgeGuard(p1, ~Truthy(prev) /\ v = "up", "net:up", c.cooldown)
    ELSE EdgeGuard(<<last, {}>>, v # prev, "svc", c.cooldown)

InitEdge ==
    /\ eKind \in EdgeKinds
    /\ eCfg \in EdgeCfgs
    /\ eNow = MaxEdgeCooldown + 1
    /\ eStored = "unset"
    /\ eLast = [k \in EdgeKeys |-> 0]
    /\ eEval = NoEval

\* the check is evaluated on the sample v
EdgeCheck(v) ==
    /\ eEval.n < MaxEvals
    /\ LET p == EdgeNotify(eKind, eStored, v, eCfg, eLast)
       IN  /\ eStored' = v
           /\ eLast' = p[1]
           /\ eEval' = [n |-> eEval.n + 1, sample |-> v, prev |-> eStored,
                        fired |-> p[2], skips |-> 0]
    /\ UNCHANGED <<eKind, eCfg, eNow>>
    /\ UNCHANGED notEdgeVars

\* Monitor.tick: quick_status raised or returned nothing: `continue`
EdgeSkip ==
    /\ eKind = "tick"
    /\ eEval.n < MaxEvals
    /\ eEval.skips = 0
    /\ eEval' = [eEval EXCEPT !.skips = 1]
    /\ UNCHANGED <<eKind, eCfg, eNow, eStored, eLast>>
    /\ UNCHANGED notEdgeVars

\* self._stop.wait(...) between two evaluations
EdgeWait ==
    /\ eNow < MaxEdgeCooldown + MaxEvals
    /\ eNow' = eNow + 1
    /\ UNCHANGED <<eKind, eCfg, eStored, eLast, eEval>>
    /\ UNCHANGED notEdgeVars

NextEdge ==
    \/ \E v \in EdgeSamples : EdgeCheck(v)
    \/ EdgeSkip
    \/ EdgeWait

Evaluated == eEval'.n # eEval.n

\* C31: every evaluation of an edge-triggered check sets the stored sample to
\* the current sample; the cooldown timestamp of a key changes only in an
\* evaluation that notifies for that key; an evaluation without a transition
\* (no baseline yet, or the sample equal to the stored one) leaves every
\* cooldown timestamp unchanged.
C31_SampleStoredStampOnlyOnFire ==
    [][/\ Evaluated => eStored' = eEval'.sample
       /\ \A k \in EdgeKeys :
             eLast'[k] # eLast[k] => (Evaluated /\ k \in eEval'.fired)
       /\ (Evaluated /\ (eStored = "unset" \/ eStored = eEval'.sample)) =>
             eLast' = eLast]_vars

\* a transition met during the cooldown: the sample is stored, nothing is
\* notified, no timestamp written
C31_Witness ==
    /\ eEval.n >= 3
    /\ eEval.prev \notin {"unset", eEval.sample}
    /\ eStored = eEval.sample
    /\ eEval.fired = {}
    /\ (eKind = "services" => eCfg.notify_on_down /\ eEval.sample = "down")
    /\ \E k \in EdgeKeys : eLast[k] # 0 /\ eLast[k] < eNow

\* C38: the first sample taken after monitor start is stored as the baseline
\* and notifies nothing, whatever its value.
C38_FirstSampleOnlyBaseline ==
    eEval.n = 1 =>
        /\ eEval.prev = "unset"
        /\ eStored = eEval.sample
        /\ eEval.fired = {}
        /\ eLast = [k \in EdgeKeys |-> 0]

C38_Witness == eEval.n = 1 /\ eEval.sample = "down" /\ eStored = "down"

(***************************************************************************)
(* Inbound messages against the pending input: _any of modules/app.py      *)
(* (PendingStore keyed by (chat, user): peek, then pop, then the branch on *)
(* kind and content type) and _text of keenetic-tg-bot/modules/app.py      *)
(* (_pending_input keyed by chat: one dict.pop).  Two telebot workers, one *)
(* chat with two admins in it.  Expiry is left to the PendingStore section.*)
(***************************************************************************)
\* pending entries set
MaxAsks == 2
\* messages arrived
MaxMsgs == 3

MsgGens == {"any", "text"}
MsgThreads == {"t1", "t2"}
MsgChats == {10}
MsgUsers == {1, 2}
ContentTypes == {"text", "document"}

\* kinds set by the callbacks: two of _any's, the one of _text
KindsOf(gen) ==
    IF gen = "any" THEN {"hydra_rm_domain_text", "file_upload"} ELSE {"opkg_search"}

\* the content type the branch of a kind asks for
Expects(kind) == IF kind = "file_upload" THEN "document" ELSE "text"

\* (chat_id, user_id) of PendingStore, int(chat_id) of _pending_input
StoreKey(gen, c, u) == IF gen = "any" THEN <<c, u>> ELSE <<c, 0>>

StoreKeys == (MsgChats \X MsgUsers) \cup (MsgChats \X {0})

NoEntry == [id |-> 0, kind |-> "", owner |-> <<0, 0>>]
NoMsg == [chat |-> 0, user |-> 0, ctype |-> ""]

\* message_handler(content_types=["text", "document"]) of _any,
\* message_handler(func=lambda m: True, content_types=["text"]) of _text
Handles(gen, ctype) == gen = "any" \/ ctype = "text"

\* what a handler does with the entry it took and the message
Branch(entry, ctype) ==
    IF entry = NoEntry THEN "none"
    ELSE IF Expects(entry.kind) = ctype THEN "domain"
    ELSE "reprompt"

\* self.pending.pop(chat, user); self._pending_input.pop(int(chat_id), None)
Taken(store, k) == [store EXCEPT ![k] = NoEntry]

Outcome(t, msg, live, entry, what, consumed) ==
    [by |-> t, msg |-> msg, live |-> live, entry |-> entry, what |-> what,
     consumed |-> consumed]

InitMsg ==
    /\ inGen \in MsgGens
    /\ inStore = [k \in StoreKeys |-> NoEntry]
    /\ inAsks = 0
    /\ inMsgs = 0
    /\ inPc = [t \in MsgThreads |-> "idle"]
    /\ inMsg = [t \in MsgThreads |-> NoMsg]
    /\ inSeen = [t \in MsgThreads |-> NoEntry]
    /\ inDone = {}

\* a callback of user u in chat c asks for input: self.pending.set(chat,
\* user, kind, ...), app.set_pending_input(chat, "opkg_search")
MsgAsk(c, u, kind) ==
    /\ inAsks < MaxAsks
    /\ inAsks' = inAsks + 1
    /\ inStore' = [inStore EXCEPT ![StoreKey(inGen, c, u)] =
                      [id |-> inAsks + 1, kind |-> kind, owner |-> <<c, u>>]]
    /\ UNCHANGED <<inGen, inMsgs, inPc, inMsg, inSeen, inDone>>
    /\ UNCHANGED notMsgVars

\* a message of a content type no handler is registered for: telebot calls
\* nothing
MsgUnhandled(t, msg) ==
    /\ inPc[t] = "idle"
    /\ inMsgs < MaxMsgs
    /\ ~Handles(inGen, msg.ctype)
    /\ inMsgs' = inMsgs + 1
    /\ inDone' = inDone \cup
           {Outcome(t, msg, inStore[StoreKey(inGen, msg.chat, msg.user)], NoEntry,
                    "unhandled", FALSE)}
    /\ UNCHANGED <<inGen, inStore, inAsks, inPc, inMsg, inSeen>>
    /\ UNCHANGED notMsgVars

\* _text: the pop, then the search screen or the home screen
MsgText(t, msg) ==
    /\ inGen = "text"
    /\ inPc[t] = "idle"
    /\ inMsgs < MaxMsgs
    /\ Handles(inGen, msg.ctype)
    /\ inMsgs' = inMsgs + 1
    /\ LET k == StoreKey(inGen, msg.chat, msg.user)
           e == inStore[k]
       IN  /\ inStore' = Taken(inStore, k)
           /\ inDone' = inDone \cup
                  {Outcome(t, msg, e, e,
                           IF e = NoEntry THEN "home" ELSE Branch(e, msg.ctype),
                           e # NoEntry)}
    /\ UNCHANGED <<inGen, inAsks, inPc, inMsg, inSeen>>
    /\ UNCHANGED notMsgVars

\* _any up to `if not p: return`
MsgPeek(t, msg) ==
    /\ inGen = "any"
    /\ inPc[t] = "idle"
    /\ inMsgs < MaxMsgs
    /\ Handles(inGen, msg.ctype)
    /\ inMsgs' = inMsgs + 1
    /\ LET e == inStore[StoreKey(inGen, msg.chat, msg.user)]
       IN  IF e = NoEntry
           THEN /\ inDone' = inDone \cup {Outcome(t, msg, e, e, "ignored", FALSE)}
                /\ UNCHANGED <<inPc, inMsg, inSeen>>
           ELSE /\ inPc' = [inPc EXCEPT ![t] = "peeked"]
                /\ inMsg' = [inMsg EXCEPT ![t] = msg]
                /\ inSeen' = [inSeen EXCEPT ![t] = e]
                /\ UNCHANGED inDone
    /\ UNCHANGED <<inGen, inStore, inAsks>>
    /\ UNCHANGED notMsgVars

\* _any from self.pending.pop(...) on: the entry peeked is processed
MsgPop(t) ==
    /\ inPc[t] = "peeked"
    /\ LET k == StoreKey(inGen, inMsg[t].chat, inMsg[t].user)
       IN  /\ inStore' = Taken(inStore, k)
           /\ inDone' = inDone \cup
                  {Outcome(t, inMsg[t], inSeen[t], inSeen[t],
                           Branch(inSeen[t], inMsg[t].ctype), TRUE)}
    /\ inPc' = [inPc EXCEPT ![t] = "idle"]
    /\ inMsg' = [inMsg EXCEPT ![t] = NoMsg]
    /\ inSeen' = [inSeen EXCEPT ![t] = NoEntry]
    /\ UNCHANGED <<inGen, inAsks, inMsgs>>
    /\ UNCHANGED notMsgVars

Msgs == [chat : MsgChats, user : MsgUsers, ctype : ContentTypes]

NextMsg ==
    \/ \E c \in MsgChats, u \in MsgUsers, kind \in KindsOf(inGen) : MsgAsk(c, u, kind)
    \/ \E t \in MsgThreads, msg \in Msgs : MsgUnhandled(t, msg)
    \/ \E t \in MsgThreads, msg \in Msgs : MsgText(t, msg)
    \/ \E t \in MsgThreads, msg \in Msgs : MsgPeek(t, msg)
    \/ \E t \in MsgThreads : MsgPop(t)

\* the messages the pending-input branch ran for
Processed == {d \in inDone : d.what \in {"domain", "reprompt"}}

\* C32: a pending entry is processed for at most one inbound message, also
\* when two messages of the same (chat, user) are handled at the same time.
C32_EntryConsumedOnce ==
    \A d1, d2 \in Processed : d1.entry.id = d2.entry.id => d1 = d2

\* C33: the entry a handler takes was set for the chat and the user of the
\* message it handles.
C33_EntryOnlyForItsPair ==
    \A d \in inDone :
        d.entry # NoEntry => d.entry.owner = <<d.msg.chat, d.msg.user>>

\* C34: a message that arrives while an entry is live for it and whose
\* content type is not the one the entry's kind asks for consumes the entry,
\* runs no domain action and is answered with the re-prompt.
C34_MismatchConsumesAndReprompts ==
    \A d \in inDone :
        (d.live # NoEntry /\ Expects(d.live.kind) # d.msg.ctype) =>
            /\ d.consumed
            /\ d.what = "reprompt"

(***************************************************************************)
(* Address of the edits of a job: _cb sets the last_* context of the App   *)
(* and calls the render of the component, which calls run_long_job; the    *)
(* spinner and the runner edit the message at the chat_id and msg_id that  *)
(* run_long_job read from the context.  Two telebot workers, a callback of *)
(* a user comes from the private chat of that user.                        *)
(***************************************************************************)
\* number of callbacks handled
MaxJobCalls == 2

NoJob == [chat |-> 0, msg |-> 0, sp |-> "none", wk |-> "none", done |-> FALSE]

Edit(u, chat, msg, kind) == [owner |-> u, chat |-> chat, msg |-> msg, kind |-> kind]

\* the spinner and the runner of the job of worker t have ended, or t
\* started none
JobOver(t) == jaJob[t].sp \in {"none", "exit"} /\ jaJob[t].wk \in {"none", "exit"}

InitAddr ==
    /\ jaLastChat = 0
    /\ jaLastMsg = 0
    /\ jaPc = [t \in CbThreads |-> "idle"]
    /\ jaCall = [t \in CbThreads |-> 0]
    /\ jaJob = [t \in CbThreads |-> NoJob]
    /\ jaEdits = {}
    /\ jaCalls = 0

\* _cb: self.last_chat_id = call.message.chat.id
JaSetChat(t, u) ==
    /\ jaPc[t] = "idle"
    /\ JobOver(t)
    /\ jaCalls < MaxJobCalls
    /\ jaCalls' = jaCalls + 1
    /\ jaCall' = [jaCall EXCEPT ![t] = u]
    /\ jaJob' = [jaJob EXCEPT ![t] = NoJob]
    /\ jaLastChat' = ChatOf(u)
    /\ jaPc' = [jaPc EXCEPT ![t] = "setMsg"]
    /\ UNCHANGED <<jaLastMsg, jaEdits>>
    /\ UNCHANGED notAddrVars

\* _cb: self.last_message_id = call.message.message_id, up to the call of
\* comp.render
JaSetMsg(t) ==
    /\ jaPc[t] = "setMsg"
    /\ jaLastMsg' = MsgOf(jaCall[t])
    /\ jaPc' = [jaPc EXCEPT ![t] = "readChat"]
    /\ UNCHANGED <<jaLastChat, jaCall, jaJob, jaEdits, jaCalls>>
    /\ UNCHANGED notAddrVars

\* run_long_job: chat_id = int(self.last_chat_id)
ChatRead(t) == jaLastChat

JaReadChat(t) ==
    /\ jaPc[t] = "readChat"
    /\ jaJob' = [jaJob EXCEPT ![t].chat = ChatRead(t)]
    /\ jaPc' = [jaPc EXCEPT ![t] = "readMsg"]
    /\ UNCHANGED <<jaLastChat, jaLastMsg, jaCall, jaEdits, jaCalls>>
    /\ UNCHANGED notAddrVars

\* run_long_job: msg_id = int(self.last_message_id), the two submits and
\* the return of the running screen
JaReadMsg(t) ==
    /\ jaPc[t] = "readMsg"
    /\ jaJob' = [jaJob EXCEPT ![t].msg = jaLastMsg, ![t].sp = "run",
                                ![t].wk = "job"]
    /\ jaPc' = [jaPc EXCEPT ![t] = "edit"]
    /\ UNCHANGED <<jaLastChat, jaLastMsg, jaCall, jaEdits, jaCalls>>
    /\ UNCHANGED notAddrVars

\* _cb: self.edit_or_send(call.message.chat.id, call.message.message_id,
\* screen) with the running screen
JaInterim(t) ==
    /\ jaPc[t] = "edit"
    /\ jaPc' = [jaPc EXCEPT ![t] = "idle"]
    /\ jaEdits' = jaEdits \cup
          {Edit(jaCall[t], ChatOf(jaCall[t]), MsgOf(jaCall[t]), "running")}
    /\ UNCHANGED <<jaLastChat, jaLastMsg, jaCall, jaJob, jaCalls>>
    /\ UNCHANGED notAddrVars

\* spinner: edit_message_text(chat_id=chat_id, message_id=msg_id, ...)
\* while done is not set
JaSpinnerEdit(t) ==
    /\ jaJob[t].sp = "run"
    /\ ~jaJob[t].done
    /\ jaEdits' = jaEdits \cup
          {Edit(jaCall[t], jaJob[t].chat, jaJob[t].msg, "spin")}
    /\ UNCHANGED <<jaLastChat, jaLastMsg, jaPc, jaCall, jaJob, jaCalls>>
    /\ UNCHANGED notAddrVars

\* spinner: `while not done.is_set()` ends the loop
JaSpinnerExit(t) ==
    /\ jaJob[t].sp = "run"
    /\ jaJob[t].done
    /\ jaJob' = [jaJob EXCEPT ![t].sp = "exit"]
    /\ UNCHANGED <<jaLastChat, jaLastMsg, jaPc, jaCall, jaEdits, jaCalls>>
    /\ UNCHANGED notAddrVars

\* runner: job() returns or raises, the screen is built, done.set()
JaRunnerJob(t) ==
    /\ jaJob[t].wk = "job"
    /\ jaJob' = [jaJob EXCEPT ![t].wk = "final", ![t].done = TRUE]
    /\ UNCHANGED <<jaLastChat, jaLastMsg, jaPc, jaCall, jaEdits, jaCalls>>
    /\ UNCHANGED notAddrVars

\* runner: time.sleep(0.2); self.edit_or_send(chat_id, msg_id, screen)
JaRunnerFinal(t) ==
    /\ jaJob[t].wk = "final"
    /\ jaJob' = [jaJob EXCEPT ![t].wk = "exit"]
    /\ jaEdits' = jaEdits \cup
          {Edit(jaCall[t], jaJob[t].chat, jaJob[t].msg, "outcome")}
    /\ UNCHANGED <<jaLastChat, jaLastMsg, jaPc, jaCall, jaCalls>>
    /\ UNCHANGED notAddrVars

NextAddr ==
    \/ \E t \in CbThreads, u \in Users : JaSetChat(t, u)
    \/ \E t \in CbThreads : JaSetMsg(t)
    \/ \E t \in CbThreads : JaReadChat(t)
    \/ \E t \in CbThreads : JaReadMsg(t)
    \/ \E t \in CbThreads : JaInterim(t)
    \/ \E t \in CbThreads : JaSpinnerEdit(t)
    \/ \E t \in CbThreads : JaSpinnerExit(t)
    \/ \E t \in CbThreads : JaRunnerJob(t)
    \/ \E t \in CbThreads : JaRunnerFinal(t)

\* C35: the spinner edits and the outcome edit of a job started by a
\* callback on message M of chat C all go to (C, M), also while a callback
\* of another chat is handled by the other worker.
C35_JobEditsGoToOwnMessage ==
    \A e \in jaEdits :
        e.kind \in {"spin", "outcome"} =>
            (e.chat = ChatOf(e.owner) /\ e.msg = MsgOf(e.owner))

(***************************************************************************)
(* Specifications.                                                         *)
(***************************************************************************)
Init ==
    /\ InitJob /\ InitLock /\ InitMon /\ InitPend /\ InitShell /\ InitCb
    /\ InitNotify /\ InitTail /\ InitFlock /\ InitTok /\ InitRun
    /\ InitApp /\ InitSim /\ InitEdge
    /\ InitMsg
    /\ InitAddr

Next ==
    \/ NextJob \/ NextLock \/ NextMon \/ NextPend \/ NextShell \/ NextCb
    \/ NextNotify \/ NextTail \/ NextFlock \/ NextTok \/ NextRun
    \/ NextApp \/ NextSim \/ NextEdge
    \/ NextMsg
    \/ NextAddr

Spec == Init /\ [][Next]_vars

\* the initial state of a subsystem while another one is explored: its
\* configuration is fixed
RestJob == InitJob /\ executor_workers = 1
RestMon == InitMon /\ cfg = DefaultCfg
RestCb == InitCb /\ admins = {101}
RestNotify == InitNotify /\ nGen = "monitor"
RestTail == InitTail /\ fExists /\ fSize = 0
RestTok == InitTok /\ tokStage = "raw" /\ tokIn = Noop
RestRun == InitRun /\ runGen = "new"
\* the subsystems declared after the token codec
RestApp == InitApp /\ appGen = "old" /\ appNow = AlertGap
RestSim == InitSim /\ simCfg = [language |-> "en", debug |-> TRUE, notify_enabled |-> TRUE]
RestEdge ==
    /\ InitEdge /\ eKind = "tick"
    /\ eCfg = [notify_on_down |-> TRUE, cooldown |-> MaxEdgeCooldown]
RestExt1 == RestRun /\ RestApp /\ RestSim
RestMsg == InitMsg /\ inGen = "any"
RestExt2 == RestEdge /\ RestMsg /\ InitAddr
RestExt == RestExt1 /\ RestExt2
RestEnd == RestCb /\ RestNotify /\ RestTail /\ InitFlock /\ RestTok /\ RestExt

InitOfJob == InitJob /\ InitLock /\ RestMon /\ InitPend /\ InitShell /\ RestEnd
InitOfLock == RestJob /\ InitLock /\ RestMon /\ InitPend /\ InitShell /\ RestEnd
InitOfMon == RestJob /\ InitLock /\ InitMon /\ InitPend /\ InitShell /\ RestEnd
InitOfPend == RestJob /\ InitLock /\ RestMon /\ InitPend /\ InitShell /\ RestEnd
InitOfShell == RestJob /\ InitLock /\ RestMon /\ InitPend /\ InitShell /\ RestEnd
\* cfg.admins: nobody, one of the two users, both
AdminLists == {{}, {101}, {101, 202}}

InitOfCb == RestJob /\ InitLock /\ RestMon /\ InitPend /\ InitShell /\ InitCb
            /\ admins \in AdminLists /\ RestNotify /\ RestTail /\ InitFlock
            /\ RestTok /\ RestExt

SpecJob == InitOfJob /\ [][NextJob]_vars

FairSpecJob == InitOfJob /\ [][NextJob]_vars /\ FairJob

\* one run_long_job invocation on the executor, every pool size
NextOneJob ==
    \/ SubmitSpinner(FirstJob)
    \/ SubmitRunner(FirstJob)
    \/ InterimEdit(FirstJob)
    \/ \E t \in 1..MaxWorkers : ExecTake(t)
    \/ SpinnerCheck(FirstJob)
    \/ SpinnerEdit(FirstJob)
    \/ RunnerJob(FirstJob)
    \/ RunnerSetDone(FirstJob)
    \/ RunnerSleep(FirstJob)
    \/ RunnerFinal(FirstJob)

FairOneJob ==
    /\ WF_vars(SubmitSpinner(FirstJob)) /\ WF_vars(SubmitRunner(FirstJob))
    /\ WF_vars(InterimEdit(FirstJob))
    /\ \A t \in 1..MaxWorkers : WF_vars(ExecTake(t))
    /\ WF_vars(SpinnerCheck(FirstJob)) /\ WF_vars(SpinnerEdit(FirstJob))
    /\ WF_vars(RunnerJob(FirstJob)) /\ WF_vars(RunnerSetDone(FirstJob))
    /\ WF_vars(RunnerSleep(FirstJob)) /\ WF_vars(RunnerFinal(FirstJob))

FairSpecOneJob == InitOfJob /\ [][NextOneJob]_vars /\ FairOneJob

SpecLock == InitOfLock /\ [][NextLock]_vars

FairSpecLockAlone == InitOfLock /\ [][NextLockAlone]_vars /\ FairLock

SpecMon == InitOfMon /\ [][NextMon]_vars

\* the monitor thread is never suspended for good: Monitor.run is the target
\* of a daemon thread of its own
FairMon == WF_vars(NextMon)

\* the two loops under their default switches
InitOfFairMon ==
    /\ RestJob /\ InitLock /\ InitMon /\ InitPend /\ InitShell /\ RestEnd
    /\ cfg \in {DefaultCfg, DefaultLegacyCfg}

FairSpecMon == InitOfFairMon /\ [][NextMon]_vars /\ FairMon

SpecPend == InitOfPend /\ [][NextPend]_vars

SpecShell == InitOfShell /\ [][NextShell]_vars

SpecCb == InitOfCb /\ [][NextCb]_vars

InitOfNotify ==
    /\ RestJob /\ InitLock /\ RestMon /\ InitPend /\ InitShell
    /\ RestCb /\ InitNotify /\ RestTail /\ InitFlock /\ RestTok /\ RestExt

SpecNotify == InitOfNotify /\ [][NextNotify]_vars

InitOfTail ==
    /\ RestJob /\ InitLock /\ RestMon /\ InitPend /\ InitShell
    /\ RestCb /\ RestNotify /\ InitTail /\ InitFlock /\ RestTok /\ RestExt

SpecTail == InitOfTail /\ [][NextTail]_vars

InitOfFlock == RestJob /\ InitLock /\ RestMon /\ InitPend /\ InitShell /\ RestEnd

SpecFlock == InitOfFlock /\ [][NextFlock]_vars

InitOfTok ==
    /\ RestJob /\ InitLock /\ RestMon /\ InitPend /\ InitShell
    /\ RestCb /\ RestNotify /\ RestTail /\ InitFlock /\ InitTok /\ RestExt

SpecTok == InitOfTok /\ [][NextTok]_vars

\* everything before the subsystems declared after the token codec, at rest
RestCore ==
    /\ RestJob /\ InitLock /\ RestMon /\ InitPend /\ InitShell
    /\ RestCb /\ RestNotify /\ RestTail /\ InitFlock /\ RestTok

InitOfRun == RestCore /\ InitRun /\ RestApp /\ RestSim /\ RestExt2

SpecRun == InitOfRun /\ [][NextRun]_vars

InitOfApp == RestCore /\ RestRun /\ InitApp /\ RestSim /\ RestExt2

SpecApp == InitOfApp /\ [][NextApp]_vars

InitOfSim == RestCore /\ RestRun /\ RestApp /\ InitSim /\ RestExt2

SpecSim == InitOfSim /\ [][NextSim]_vars

InitOfEdge == RestCore /\ RestExt1 /\ InitEdge /\ RestMsg /\ InitAddr

SpecEdge == InitOfEdge /\ [][NextEdge]_vars

InitOfMsg == RestCore /\ RestExt1 /\ RestEdge /\ InitMsg /\ InitAddr

SpecMsg == InitOfMsg /\ [][NextMsg]_vars

InitOfAddr == RestCore /\ RestExt1 /\ RestEdge /\ RestMsg /\ InitAddr
SpecAddr == InitOfAddr /\ [][NextAddr]_vars

=============================================================================
